---- MODULE Spec2Model ----
(***************************************************************************)
(* Model of the terrasync streaming scan pipeline: scan() (app/src/scan/   *)
(* scan.rs), the ConsumerManager broadcast fan-out (app/src/consumer/      *)
(* manager.rs), the console and database sinks, the storage walkers and    *)
(* the filter evaluator.                                                   *)
(*                                                                         *)
(* Strings are sequences of one-character strings, so that starts_with,    *)
(* ends_with, contains and slicing are computed as the code computes them. *)
(***************************************************************************)
EXTENDS Integers, Sequences, FiniteSets, TLC

(***************************************************************************)
(* Bounds of the model.                                                    *)
(***************************************************************************)
\* longest storage listing that is walked
MaxEntries == 3
\* capacity of the mpsc queues between storage task, walkdir and scan
\* (1000 in the program)
QueueCap == 1
\* capacity of the broadcast bus (10000 by default in the program)
BusCap == 2
\* largest database batch size that is tried
MaxBatch == 2

(***************************************************************************)
(* String helpers (std::str).                                              *)
(***************************************************************************)
StartsWith(s, p) == Len(p) <= Len(s) /\ SubSeq(s, 1, Len(p)) = p

EndsWith(s, p) == Len(p) <= Len(s) /\ SubSeq(s, Len(s) - Len(p) + 1, Len(s)) = p

Contains(s, p) == \E i \in 0..(Len(s) - Len(p)) : SubSeq(s, i + 1, i + Len(p)) = p

HasChar(s, c) == \E i \in 1..Len(s) : s[i] = c

CountChar(s, c) == Cardinality({i \in 1..Len(s) : s[i] = c})

LastIndex(s, c) == CHOOSE i \in 1..Len(s) : s[i] = c /\ \A j \in (i + 1)..Len(s) : s[j] # c

\* str::parse::<u64> / parse::<f64> restricted to unsigned decimal integers:
\* a token parses iff it is a non-empty run of digits
ParsesAsNumber(v) ==
    LET Digits == {"0", "1", "2", "3", "4", "5", "6", "7", "8", "9"}
    IN  Len(v) > 0 /\ \A i \in 1..Len(v) : v[i] \in Digits

RECURSIVE NumberValue(_)
NumberValue(v) ==
    LET DigitVal(c) == CASE c = "0" -> 0 [] c = "1" -> 1 [] c = "2" -> 2 [] c = "3" -> 3
                         [] c = "4" -> 4 [] c = "5" -> 5 [] c = "6" -> 6 [] c = "7" -> 7
                         [] c = "8" -> 8 [] c = "9" -> 9
    IN  IF v = <<>> THEN 0
        ELSE 10 * NumberValue(SubSeq(v, 1, Len(v) - 1)) + DigitVal(v[Len(v)])

\* str::to_lowercase over the alphabet of the model
ToLowercase(s) ==
    LET LowerChar(c) == CASE c = "T" -> "t" [] c = "X" -> "x" [] OTHER -> c
    IN  [i \in 1..Len(s) |-> LowerChar(s[i])]

(***************************************************************************)
(* Filter language: parse (token level) and evaluation.                    *)
(* A raw expression is the sequence of its condition parts; a part is a    *)
(* record [field, op, value] of tokens.                                    *)
(***************************************************************************)
NoCond == [kind |-> "None", operator |-> "", value |-> <<>>, num |-> 0]

ParseError == [kind |-> "Error", operator |-> "", value |-> <<>>, num |-> 0]

StrCond(k, o, v) == [kind |-> k, operator |-> o, value |-> v, num |-> 0]

NumCond(k, o, v) == [kind |-> k, operator |-> o, value |-> <<>>, num |-> NumberValue(v)]

\* parse_single_condition: Some(condition), None (NoCond) or Err (ParseError)
parse_single_condition(p) ==
    LET ComparisonOps == {"==", "!=", "<=", ">=", "<", ">"}
    IN
    IF p.op = "in" /\ p.field = "name" THEN StrCond("Name", "contains", p.value)
    ELSE IF p.op = "in" /\ p.field = "path" THEN StrCond("Path", "contains", p.value)
    ELSE IF p.op = "like" /\ p.field = "name" THEN StrCond("Name", "like", p.value)
    ELSE IF p.op = "like" /\ p.field = "path" THEN StrCond("Path", "like", p.value)
    ELSE IF p.op = "like" /\ p.field = "extension" THEN StrCond("Extension", "like", p.value)
    ELSE IF p.op \in ComparisonOps /\ p.field = "name" THEN StrCond("Name", p.op, p.value)
    ELSE IF p.op \in ComparisonOps /\ p.field = "path" THEN StrCond("Path", p.op, p.value)
    ELSE IF p.op \in ComparisonOps /\ p.field = "type" THEN StrCond("Type", p.op, p.value)
    ELSE IF p.op \in ComparisonOps /\ p.field = "modified"
         THEN (IF ParsesAsNumber(p.value) THEN NumCond("Modified", p.op, p.value) ELSE ParseError)
    ELSE IF p.op \in ComparisonOps /\ p.field = "size"
         THEN (IF ParsesAsNumber(p.value) THEN NumCond("Size", p.op, p.value) ELSE ParseError)
    ELSE IF p.op \in ComparisonOps /\ p.field = "extension"
         THEN StrCond("Extension", p.op, p.value)
    ELSE IF p.op = "contains" /\ p.field = "name" THEN StrCond("Name", "contains", p.value)
    ELSE IF p.op = "contains" /\ p.field = "path" THEN StrCond("Path", "contains", p.value)
    ELSE IF p.op = "contains" /\ p.field = "extension"
         THEN StrCond("Extension", "contains", p.value)
    ELSE IF p.op = "starts with" /\ p.field = "name" THEN StrCond("Name", "starts_with", p.value)
    ELSE IF p.op = "starts with" /\ p.field = "path" THEN StrCond("Path", "starts_with", p.value)
    ELSE IF p.op = "ends with" /\ p.field = "name" THEN StrCond("Name", "ends_with", p.value)
    ELSE IF p.op = "ends with" /\ p.field = "path" THEN StrCond("Path", "ends_with", p.value)
    ELSE NoCond

\* parse_filter_expression: [ok, conditions]; the first failing part fails
\* the whole expression, a part that yields None is skipped
RECURSIVE parse_filter_expression(_)
parse_filter_expression(parts) ==
    IF parts = <<>> THEN [ok |-> TRUE, conditions |-> <<>>]
    ELSE LET c == parse_single_condition(Head(parts))
             rest == parse_filter_expression(Tail(parts))
         IN  IF c = ParseError THEN [ok |-> FALSE, conditions |-> <<>>]
             ELSE IF ~rest.ok THEN rest
             ELSE IF c = NoCond THEN rest
             ELSE [ok |-> TRUE, conditions |-> <<c>> \o rest.conditions]

\* parse_expressions: collect() of the per-expression results, first error wins
RECURSIVE parse_expressions(_)
parse_expressions(exprs) ==
    IF exprs = <<>> THEN [ok |-> TRUE, exprs |-> <<>>]
    ELSE LET e == parse_filter_expression(Head(exprs))
             rest == parse_expressions(Tail(exprs))
         IN  IF ~e.ok THEN [ok |-> FALSE, exprs |-> <<>>]
             ELSE IF ~rest.ok THEN rest
             ELSE [ok |-> TRUE, exprs |-> <<e.conditions>> \o rest.exprs]

\* the like arm of evaluate_filter, for a pattern on which it does not abort
LikeMatch(value, s) ==
    LET FirstIndex(v, c) == CHOOSE i \in 1..Len(v) : v[i] = c /\ \A j \in 1..(i - 1) : v[j] # c
    IN
    IF Len(value) > 0 /\ value[1] = "%" /\ value[Len(value)] = "%"
    THEN Contains(s, SubSeq(value, 2, Len(value) - 1))
    ELSE IF Len(value) > 0 /\ value[1] = "%"
    THEN EndsWith(s, SubSeq(value, 2, Len(value)))
    ELSE IF Len(value) > 0 /\ value[Len(value)] = "%"
    THEN StartsWith(s, SubSeq(value, 1, Len(value) - 1))
    ELSE IF HasChar(value, "%")
    THEN (IF CountChar(value, "%") = 1
          THEN StartsWith(s, SubSeq(value, 1, FirstIndex(value, "%") - 1))
               /\ EndsWith(s, SubSeq(value, FirstIndex(value, "%") + 1, Len(value)))
          ELSE HasChar(s, "%"))
    ELSE s = value

\* the string arms shared by Name, Path and Extension
StringOp(operator, value, s) ==
    CASE operator = "==" -> s = value
      [] operator = "!=" -> s # value
      [] operator \in {"contains", "in"} -> Contains(s, value)
      [] operator = "starts_with" -> StartsWith(s, value)
      [] operator = "ends_with" -> EndsWith(s, value)
      [] operator = "like" -> LikeMatch(value, s)
      [] OTHER -> FALSE

NumberOp(operator, value, n) ==
    CASE operator = "<" -> n < value
      [] operator = ">" -> n > value
      [] operator = "<=" -> n <= value
      [] operator = ">=" -> n >= value
      [] OTHER -> FALSE

Truth(b) == IF b THEN "true" ELSE "false"

\* one arm of the match in evaluate_filter: "true", "false" or "panic". The
\* slice &value[1..value.len() - 1] of the "%...%" branch aborts when the
\* pattern is the single character "%" (begin 1 > end 0)
EvalCondition(c, file_name, file_path, file_type, modified_days, size, extension) ==
    LET LikePanics(value) == Len(value) = 1 /\ value[1] = "%"
    IN
    CASE c.kind = "Name" ->
           IF c.operator = "like" /\ LikePanics(c.value) THEN "panic"
           ELSE Truth(StringOp(c.operator, c.value, file_name))
      [] c.kind = "Path" ->
           IF c.operator = "like" /\ LikePanics(c.value) THEN "panic"
           ELSE Truth(StringOp(c.operator, c.value, file_path))
      [] c.kind = "Type" ->
           Truth(c.operator = "==" /\ file_type = c.value)
      [] c.kind = "Modified" -> Truth(NumberOp(c.operator, c.num, modified_days))
      [] c.kind = "Size" -> Truth(NumberOp(c.operator, c.num, size))
      [] c.kind = "Extension" ->
           IF c.operator = "like" /\ LikePanics(c.value) THEN "panic"
           ELSE IF c.operator \in {"starts_with", "ends_with", "in"} THEN "false"
           ELSE Truth(StringOp(c.operator, c.value, extension))

\* evaluate_filter: conditions in order, the first one that does not hold
\* returns false; an aborting condition aborts the evaluation
RECURSIVE evaluate_filter(_, _, _, _, _, _, _)
evaluate_filter(conds, file_name, file_path, file_type, modified_days, size, extension) ==
    IF conds = <<>> THEN "true"
    ELSE LET r == EvalCondition(Head(conds), file_name, file_path, file_type,
                                modified_days, size, extension)
         IN  IF r = "true"
             THEN evaluate_filter(Tail(conds), file_name, file_path, file_type,
                                  modified_days, size, extension)
             ELSE r

\* has_matching_expression: Iterator::any over the expressions, in order
RECURSIVE has_matching_expression(_, _, _, _, _, _, _)
has_matching_expression(exprs, file_name, file_path, file_type, modified_days, size, extension) ==
    IF exprs = <<>> THEN "false"
    ELSE LET r == evaluate_filter(Head(exprs), file_name, file_path, file_type,
                                  modified_days, size, extension)
         IN  IF r = "false"
             THEN has_matching_expression(Tail(exprs), file_name, file_path, file_type,
                                          modified_days, size, extension)
             ELSE r

\* should_skip_file: "true" (skip), "false" (keep) or "panic"
should_skip_file(expressions, exclude_expressions, file_name, file_path, file_type, modified_days, size, extension) ==
    LET ex == IF exclude_expressions # <<>>
              THEN has_matching_expression(exclude_expressions, file_name, file_path,
                                           file_type, modified_days, size, extension)
              ELSE "false"
    IN  IF ex # "false" THEN ex
        ELSE IF expressions = <<>> THEN "false"
        ELSE LET m == has_matching_expression(expressions, file_name, file_path,
                                              file_type, modified_days, size, extension)
             IN  IF m = "panic" THEN "panic"
                 ELSE IF m = "false" THEN "true"
                 ELSE "false"

(***************************************************************************)
(* Storage entries and listings.                                           *)
(***************************************************************************)
Entry(n, p, d, s, m) == [name |-> n, path |-> p, is_dir |-> d, size |-> s, mdays |-> m]

NoEntry == Entry(<<>>, <<>>, FALSE, 0, 0)

RootEntry == Entry(<<"r">>, <<"/", "r">>, TRUE, 0, 0)

\* children of the scan root /r in listing order
Children ==
    << Entry(<<"a", ".", "t", "x", "t">>, <<"/", "r", "/", "a", ".", "t", "x", "t">>, FALSE, 8, 0),
       Entry(<<"b", ".", "l", "o", "g">>, <<"/", "r", "/", "b", ".", "l", "o", "g">>, FALSE, 9, 3),
       Entry(<<"d">>, <<"/", "r", "/", "d">>, TRUE, 0, 1),
       Entry(<<"c", ".", "T", "X", "T">>, <<"/", "r", "/", "d", "/", "c", ".", "T", "X", "T">>, FALSE, 5, 2),
       Entry(<<"e">>, <<"/", "r", "/", "e">>, FALSE, 1, 0) >>

Take(s, n) == SubSeq(s, 1, IF n < Len(s) THEN n ELSE Len(s))

\* variant: a local walker that does not yield the root it was given
ListingBelowRoot(kind) ==
    CASE kind = "local" -> Take(Children, MaxEntries)
      [] kind = "nfs" -> Take(Children, MaxEntries)
      [] OTHER -> <<>>

\* what the storage task of a backend sends on its channel: WalkDir yields
\* the root itself first and drops the error item of a root that cannot be
\* opened; the NFS walker lists below the root and returns without sending
\* when the mount fails; the S3 walker sends nothing
Listing(kind) ==
    CASE kind = "local" -> Take(<<RootEntry>> \o Children, MaxEntries)
      [] kind = "local_empty" -> <<RootEntry>>
      [] kind = "nfs" -> Take(Children, MaxEntries)
      [] OTHER -> <<>>

\* std::path::Path::extension of the final component, lowercased
ExtensionOf(path) ==
    LET f == IF HasChar(path, "/") THEN SubSeq(path, LastIndex(path, "/") + 1, Len(path)) ELSE path
    IN  IF ~HasChar(f, ".") \/ LastIndex(f, ".") = 1 THEN <<>>
        ELSE ToLowercase(SubSeq(f, LastIndex(f, ".") + 1, Len(f)))

FileType(e) == IF e.is_dir THEN <<"d", "i", "r">> ELSE <<"f", "i", "l", "e">>

\* the call of should_skip_file in walkdir, on the attributes walkdir derives
SkipEntry(expressions, exclude_expressions, e) ==
    should_skip_file(expressions, exclude_expressions, e.name, e.path, FileType(e), e.mdays, e.size, ExtensionOf(e.path))

(***************************************************************************)
(* Raw filter expressions offered to a run.                                *)
(***************************************************************************)
\* the expressions of the runs, each the sequence of its parts
Raw ==
    LET Part(f, o, v) == [field |-> f, op |-> o, value |-> v]
    IN  [TypeFile |-> <<Part("type", "==", <<"f", "i", "l", "e">>)>>,
         LikeTxt |-> <<Part("name", "like", <<"%", ".", "t", "x", "t">>)>>,
         LikeLog |-> <<Part("name", "like", <<"%", ".", "l", "o", "g">>)>>,
         SizeGe9 |-> <<Part("size", ">=", <<"9">>)>>,
         BadSize |-> <<Part("size", ">=", <<"1", "k">>)>>,
         DirLikeAll |-> <<Part("type", "==", <<"d", "i", "r">>), Part("name", "like", <<"%">>)>>,
         SizeGe0 |-> <<Part("size", ">=", <<"0">>)>>]

(***************************************************************************)
(* Messages.                                                               *)
(***************************************************************************)
ConfigMsg == [type |-> "Config", entry |-> NoEntry]

ResultMsg(e) == [type |-> "Result", entry |-> e]

CompleteMsg == [type |-> "Complete", entry |-> NoEntry]

AllSinks == {"database", "kafka", "console"}

(***************************************************************************)
(* State.                                                                  *)
(***************************************************************************)
VARIABLES
    cfg,          \* the run: ScanParams, AppConfig and the outcomes of the environment
    scan_pc,      \* position of scan()
    scan_config,  \* ScanConfig.expressions / exclude_expressions once parsed
    walk_pc,      \* position of the walkdir task
    walk_pending, \* the Result walkdir is about to send on tx
    walk_taken,   \* number of storage entries walkdir has received
    store_pc,     \* position of the storage task behind Storage::walkdir
    store_pos,    \* number of entries the storage task has sent
    store_chan,   \* mpsc channel storage task -> walkdir
    queue,        \* mpsc channel walkdir -> scan (tx, rx)
    bus,          \* every message the broadcast channel accepted, in order
    send_failed,  \* messages whose broadcast send returned Err (no receiver)
    sink_pc,      \* position of each sink task
    cursor,       \* per receiver: number of bus positions consumed or skipped
    lagged,       \* per receiver: number of Lagged errors received
    handled,      \* per sink: bus positions of the messages it handled, in order
    console,      \* ConsoleConsumer locals
    db,           \* DatabaseConsumer locals, the inserts it issued, the errors it logged
    call,         \* a library function called on its own: its name and arguments
    ret           \* what that call has produced so far

vars == <<call, ret, cfg, scan_pc, scan_config, walk_pc, walk_pending, walk_taken, store_pc, store_pos, store_chan, queue, bus, send_failed, sink_pc, cursor, lagged, handled, console, db>>

walkVars == <<walk_pc, walk_pending, walk_taken, store_pc, store_pos, store_chan>>

sinkVars == <<sink_pc, cursor, lagged, handled, console, db>>

callVars == <<call, ret>>

\* no library function is under evaluation while scan() runs
NoCall == [fn |-> "none"]

\* ConsumerManager::with_config as called by ConsumerManager::new: the
\* enabled optional sinks, then always the console sink
Registered(c) ==
    (IF c.db_enabled THEN {"database"} ELSE {}) \cup (IF c.kafka_enabled THEN {"kafka"} ELSE {}) \cup {"console"}

ScanReturned == scan_pc \in {"ok", "err"}

\* the rx half of the walkdir -> scan queue lives until scan() returns
RxAlive == ~ScanReturned

\* the broadcast senders (manager and its clone) live until scan() returns
SendersAlive == ~ScanReturned

\* the tx half is dropped when the walkdir task ends, however it ends
WalkEnded == walk_pc \in {"ok", "err", "panicked"}

\* broadcast receivers that exist: subscribed and their task not finished
Receivers == {s \in AllSinks : sink_pc[s] = "run"}

\* The runs that are explored: every backend outcome, every pair of match and
\* exclude lists on the walking backends, and the optional sinks (one at a
\* time next to the console sink) on the local backend
Scenarios ==
    LET PathKinds == {"local", "local_empty", "local_missing", "nfs", "nfs_empty", "nfs_mount_fail",
                      "nfs_bad_uri", "s3", "s3_no_credentials"}
        MatchLists == { <<>>, <<Raw.TypeFile>>, <<Raw.LikeTxt>>, <<Raw.LikeTxt, Raw.SizeGe9>>,
                        <<Raw.BadSize>>, <<Raw.DirLikeAll, Raw.SizeGe0>> }
        ExcludeLists == { <<>>, <<Raw.LikeLog>>, <<Raw.TypeFile, Raw.BadSize>> }
        DbInitOutcomes == {"ok", "create_failed", "ping_failed", "base_table_failed",
                           "state_table_failed", "seed_failed"}
    IN
    { c \in [path_kind : PathKinds, match : MatchLists, exclude : ExcludeLists,
             db_enabled : BOOLEAN, kafka_enabled : BOOLEAN,
             batch_size : 1..MaxBatch, db_init : DbInitOutcomes] :
        /\ (c.path_kind \notin {"local", "nfs"}) => (c.match = <<>> /\ c.exclude = <<>>)
        /\ (~c.db_enabled) => (c.batch_size = 1 /\ c.db_init = "ok")
        /\ (c.db_init # "ok") => c.batch_size = 1
        /\ c.kafka_enabled => ~c.db_enabled
        /\ (c.db_enabled \/ c.kafka_enabled) =>
              (c.path_kind # "nfs" /\ c.exclude = <<>> /\ c.match \in {<<>>, <<Raw.TypeFile>>})
        /\ (c.kafka_enabled \/ c.db_init # "ok") => c.match = <<>> }

\* scan() not yet started: nothing spawned, sent or received
ScanIdle ==
    /\ scan_pc = "parse"
    /\ scan_config = [expressions |-> <<>>, exclude_expressions |-> <<>>]
    /\ walk_pc = "idle"
    /\ walk_pending = NoEntry
    /\ walk_taken = 0
    /\ store_pc = "idle"
    /\ store_pos = 0
    /\ store_chan = <<>>
    /\ queue = <<>>
    /\ bus = <<>>
    /\ send_failed = <<>>
    /\ sink_pc = [s \in AllSinks |-> "absent"]
    /\ cursor = [s \in AllSinks |-> 0]
    /\ lagged = [s \in AllSinks |-> 0]
    /\ handled = [s \in AllSinks |-> <<>>]
    /\ console = [config_received |-> FALSE, total_files |-> 0, total_dirs |-> 0, matched_files |-> 0, matched_dirs |-> 0, total_size |-> 0, printed |-> 0]
    /\ db = [database |-> FALSE, batch_size |-> 0, batch_records |-> <<>>, inserts |-> <<>>, errors |-> <<>>]

Init ==
    /\ call = NoCall
    /\ ret = <<>>
    /\ cfg \in Scenarios
    /\ ScanIdle

(***************************************************************************)
(* tokio::sync::broadcast as used by the manager and the sinks.            *)
(***************************************************************************)
\* variant: a channel that stores a message although nobody is subscribed
SendAcceptedWithoutReceiver(receivers) == TRUE

\* Sender::send: fails, storing nothing, when no receiver exists
SendAccepted(receivers) == receivers # {}

\* variant: a channel that makes the sender wait for its slowest receiver
BusSendBlocking(msg) ==
    /\ \A s \in Receivers : Len(bus) - cursor[s] < BusCap
    /\ IF SendAccepted(Receivers)
       THEN bus' = Append(bus, msg) /\ UNCHANGED send_failed
       ELSE send_failed' = Append(send_failed, msg) /\ UNCHANGED bus

\* Sender::send never waits: the message is appended, overwriting the oldest slot
BusSend(msg) ==
    IF SendAccepted(Receivers)
    THEN bus' = Append(bus, msg) /\ UNCHANGED send_failed
    ELSE send_failed' = Append(send_failed, msg) /\ UNCHANGED bus

\* oldest position still retained by the ring of BusCap slots
Oldest(tail) == IF tail > BusCap THEN tail - BusCap ELSE 0

\* Receiver::recv outcome for a receiver at position cur
RecvOutcome(cur, tail, open) ==
    IF cur < Oldest(tail) THEN "Lagged"
    ELSE IF cur < tail THEN "Message"
    ELSE IF ~open THEN "Closed"
    ELSE "Pending"

(***************************************************************************)
(* scan()                                                                  *)
(***************************************************************************)
\* variant: scan() without the ? on parse_expressions
ScanParseUnchecked ==
    /\ scan_pc = "parse"
    /\ scan_config' = [expressions |-> parse_expressions(cfg.match).exprs,
                       exclude_expressions |-> parse_expressions(cfg.exclude).exprs]
    /\ scan_pc' = "start"
    /\ UNCHANGED <<cfg, callVars, walkVars, queue, bus, send_failed, sinkVars>>

\* parse_expressions(match)? then parse_expressions(exclude)?
ScanParse ==
    /\ scan_pc = "parse"
    /\ LET m == parse_expressions(cfg.match)
           x == parse_expressions(cfg.exclude)
       IN  IF m.ok /\ x.ok
           THEN /\ scan_config' = [expressions |-> m.exprs, exclude_expressions |-> x.exprs]
                /\ scan_pc' = "start"
           ELSE /\ scan_pc' = "err"
                /\ UNCHANGED scan_config
    /\ UNCHANGED <<cfg, callVars, walkVars, queue, bus, send_failed, sinkVars>>

\* variant: sink tasks that are spawned without a receiver and subscribe
\* only when scan() has gone on to its next send
ScanStartConsumersLate ==
    /\ scan_pc = "start"
    /\ sink_pc' = [s \in AllSinks |-> IF s \in Registered(cfg) THEN "run" ELSE "absent"]
    /\ cursor' = [s \in AllSinks |-> Len(bus) + 1]
    /\ scan_pc' = "config"
    /\ UNCHANGED <<cfg, callVars, scan_config, walkVars, queue, bus, send_failed, lagged, handled, console, db>>

\* ConsumerManager::new and start_consumers: every registered sink is
\* subscribed at the current tail and its task spawned
ScanStartConsumers ==
    /\ scan_pc = "start"
    /\ sink_pc' = [s \in AllSinks |-> IF s \in Registered(cfg) THEN "run" ELSE "absent"]
    /\ cursor' = [s \in AllSinks |-> Len(bus)]
    /\ scan_pc' = "config"
    /\ UNCHANGED <<cfg, callVars, scan_config, walkVars, queue, bus, send_failed, lagged, handled, console, db>>

\* broadcaster.send(ScanMessage::Config(..)), an error is only logged
ScanSendConfig ==
    /\ scan_pc = "config"
    /\ BusSend(ConfigMsg)
    /\ scan_pc' = "sleep"
    /\ UNCHANGED <<cfg, callVars, scan_config, walkVars, queue, sinkVars>>

\* the grace sleep, then tokio::spawn(walkdir(scan_config, tx))
ScanSpawnWalker ==
    /\ scan_pc = "sleep"
    /\ walk_pc' = "create"
    /\ scan_pc' = "forward"
    /\ UNCHANGED <<cfg, callVars, scan_config, walk_pending, walk_taken, store_pc, store_pos, store_chan, queue, bus, send_failed, sinkVars>>

\* one iteration of the forwarding loop: rx.recv() yields a message, or None
\* once the queue is empty and tx is dropped
ScanForward ==
    /\ scan_pc = "forward"
    /\ IF queue # <<>>
       THEN /\ BusSend(Head(queue))
            /\ queue' = Tail(queue)
            /\ scan_pc' = IF Head(queue).type = "Complete" THEN "join_walker" ELSE "forward"
       ELSE /\ WalkEnded
            /\ BusSend(CompleteMsg)
            /\ scan_pc' = "join_walker"
            /\ UNCHANGED queue
    /\ UNCHANGED <<cfg, callVars, scan_config, walkVars, sinkVars>>

\* walkdir_handle.await.map_err(..)?: only a JoinError (the task panicked)
\* is propagated, the Result the task returned is discarded
ScanJoinWalker ==
    /\ scan_pc = "join_walker"
    /\ WalkEnded
    /\ scan_pc' = IF walk_pc = "panicked" THEN "err" ELSE "join_sinks"
    /\ UNCHANGED <<cfg, callVars, scan_config, walkVars, queue, bus, send_failed, sinkVars>>

\* for handle in consumer_handles { let _ = handle.await; }
ScanJoinSinks ==
    /\ scan_pc = "join_sinks"
    /\ \A s \in Registered(cfg) : sink_pc[s] = "done"
    /\ scan_pc' = "shutdown"
    /\ UNCHANGED <<cfg, callVars, scan_config, walkVars, queue, bus, send_failed, sinkVars>>

\* consumer_manager.shutdown(): one more send of Complete, result ignored
ScanShutdown ==
    /\ scan_pc = "shutdown"
    /\ BusSend(CompleteMsg)
    /\ scan_pc' = "ok"
    /\ UNCHANGED <<cfg, callVars, scan_config, walkVars, queue, sinkVars>>

(***************************************************************************)
(* walkdir task and the storage task behind Storage::walkdir               *)
(***************************************************************************)
\* a bounded mpsc channel accepts a send only below its capacity
QueueFull(q) == Len(q) >= QueueCap

\* storage::create_storage: parse_nfs_path panics on a malformed nfs:// URI,
\* the S3 configuration fails without credentials, otherwise the backend's
\* walkdir spawns its storage task and hands back the receiver
WalkCreate ==
    /\ walk_pc = "create"
    /\ IF cfg.path_kind = "nfs_bad_uri" THEN walk_pc' = "panicked" /\ UNCHANGED store_pc
       ELSE IF cfg.path_kind = "s3_no_credentials" THEN walk_pc' = "err" /\ UNCHANGED store_pc
       ELSE walk_pc' = "recv" /\ store_pc' = "run"
    /\ UNCHANGED <<cfg, callVars, scan_pc, scan_config, walk_pending, walk_taken, store_pos, store_chan, queue, bus, send_failed, sinkVars>>

\* the storage task: sends the listing entry by entry, waiting while the
\* channel is full, and ends when the listing ends or the receiver is gone
StorageStep ==
    /\ store_pc = "run"
    /\ IF store_pos >= Len(Listing(cfg.path_kind)) \/ WalkEnded
       THEN store_pc' = "done" /\ UNCHANGED <<store_pos, store_chan>>
       ELSE /\ ~QueueFull(store_chan)
            /\ store_chan' = Append(store_chan, Listing(cfg.path_kind)[store_pos + 1])
            /\ store_pos' = store_pos + 1
            /\ UNCHANGED store_pc
    /\ UNCHANGED <<cfg, callVars, scan_pc, scan_config, walk_pc, walk_pending, walk_taken, queue, bus, send_failed, sinkVars>>

\* while let Some(entry) = rx.recv().await: derive the attributes and apply
\* should_skip_file; the loop ends when the storage channel is closed and empty
WalkRecv ==
    /\ walk_pc = "recv"
    /\ IF store_chan # <<>>
       THEN LET e == Head(store_chan)
                r == SkipEntry(scan_config.expressions, scan_config.exclude_expressions, e)
            IN  /\ store_chan' = Tail(store_chan)
                /\ walk_taken' = walk_taken + 1
                /\ walk_pc' = IF r = "panic" THEN "panicked" ELSE IF r = "true" THEN "recv" ELSE "send"
                /\ walk_pending' = IF r = "false" THEN e ELSE NoEntry
       ELSE /\ store_pc = "done"
            /\ walk_pc' = "complete"
            /\ UNCHANGED <<store_chan, walk_taken, walk_pending>>
    /\ UNCHANGED <<cfg, callVars, scan_pc, scan_config, store_pc, store_pos, queue, bus, send_failed, sinkVars>>

\* tx.send(ScanMessage::Result(scan_result)).await; an error breaks the loop
WalkSend ==
    /\ walk_pc = "send"
    /\ IF ~RxAlive
       THEN walk_pc' = "complete" /\ UNCHANGED queue
       ELSE /\ ~QueueFull(queue)
            /\ queue' = Append(queue, ResultMsg(walk_pending))
            /\ walk_pc' = "recv"
    /\ walk_pending' = NoEntry
    /\ UNCHANGED <<cfg, callVars, scan_pc, scan_config, walk_taken, store_pc, store_pos, store_chan, bus, send_failed, sinkVars>>

\* send_message(&tx, ScanMessage::Complete).await?; Ok(())
WalkComplete ==
    /\ walk_pc = "complete"
    /\ IF ~RxAlive
       THEN walk_pc' = "err" /\ UNCHANGED queue
       ELSE /\ ~QueueFull(queue)
            /\ queue' = Append(queue, CompleteMsg)
            /\ walk_pc' = "ok"
    /\ UNCHANGED <<cfg, callVars, scan_pc, scan_config, walk_pending, walk_taken, store_pc, store_pos, store_chan, bus, send_failed, sinkVars>>

(***************************************************************************)
(* Sinks                                                                   *)
(***************************************************************************)
\* batch_size.unwrap_or(200_000)
DefaultBatchSize == 200000

EffectiveBatchSize(b) == IF b = 0 THEN DefaultBatchSize ELSE b

\* variant: a lagging sink that resubscribes at the tail of the bus
SinkLaggedResubscribe(s) ==
    /\ cursor' = [cursor EXCEPT ![s] = Len(bus)]
    /\ lagged' = [lagged EXCEPT ![s] = @ + 1]
    /\ UNCHANGED <<sink_pc, handled, console, db>>

\* the receive of one loop iteration of a sink, common to all sinks:
\* Lagged moves the receiver to the oldest retained message and continues
SinkLagged(s) ==
    /\ cursor' = [cursor EXCEPT ![s] = Oldest(Len(bus))]
    /\ lagged' = [lagged EXCEPT ![s] = @ + 1]
    /\ UNCHANGED <<sink_pc, handled, console, db>>

\* variant: a sink that goes on receiving on a closed channel
SinkClosedContinue(s) ==
    UNCHANGED <<sink_pc, cursor, lagged, handled, console, db>>

\* Closed ends the loop and the task returns Ok(())
SinkClosed(s) ==
    /\ sink_pc' = [sink_pc EXCEPT ![s] = "done"]
    /\ UNCHANGED <<cursor, lagged, handled, console, db>>

\* variant: a sink loop that does not break on Complete
SinkTakeNoBreak(s) ==
    /\ cursor' = [cursor EXCEPT ![s] = @ + 1]
    /\ handled' = [handled EXCEPT ![s] = Append(@, cursor[s] + 1)]
    /\ UNCHANGED <<sink_pc, lagged>>

\* Ok(message): the message is handled, Complete ends the loop
SinkTake(s) ==
    /\ cursor' = [cursor EXCEPT ![s] = @ + 1]
    /\ handled' = [handled EXCEPT ![s] = Append(@, cursor[s] + 1)]
    /\ sink_pc' = [sink_pc EXCEPT ![s] = IF bus[cursor[s] + 1].type = "Complete" THEN "done" ELSE "run"]
    /\ UNCHANGED lagged

\* variant: a console sink that prints its report only when it saw Config
ConsoleHandleNeedsConfig(c, msg) ==
    CASE msg.type = "Result" ->
           IF msg.entry.is_dir
           THEN [c EXCEPT !.total_dirs = @ + 1]
           ELSE [c EXCEPT !.total_files = @ + 1, !.total_size = @ + msg.entry.size + msg.entry.size]
      [] msg.type = "Config" -> [c EXCEPT !.config_received = TRUE]
      [] msg.type = "Complete" -> [c EXCEPT !.printed = IF c.config_received THEN @ + 1 ELSE @]

\* ConsoleConsumer: counters on Result (total_size is added by the handler
\* and again by StatsCalculator::update_file_stats; matched_files and
\* matched_dirs are never written), config_received on Config, the final
\* report on Complete
ConsoleHandle(c, msg) ==
    CASE msg.type = "Result" ->
           IF msg.entry.is_dir
           THEN [c EXCEPT !.total_dirs = @ + 1]
           ELSE [c EXCEPT !.total_files = @ + 1, !.total_size = @ + msg.entry.size + msg.entry.size]
      [] msg.type = "Config" -> [c EXCEPT !.config_received = TRUE]
      [] msg.type = "Complete" -> [c EXCEPT !.printed = @ + 1]

ConsoleRecv ==
    /\ sink_pc["console"] = "run"
    /\ LET o == RecvOutcome(cursor["console"], Len(bus), SendersAlive)
       IN  /\ o # "Pending"
           /\ IF o = "Lagged" THEN SinkLagged("console")
              ELSE IF o = "Closed" THEN SinkClosed("console")
              ELSE /\ SinkTake("console")
                   /\ console' = ConsoleHandle(console, bus[cursor["console"] + 1])
                   /\ UNCHANGED db
    /\ UNCHANGED <<cfg, callVars, scan_pc, scan_config, walkVars, queue, bus, send_failed>>

\* variant: an initialization that tolerates a failed insert_scan_state_sync
DbInitIgnoresSeed(outcome) == outcome \in {"ok", "seed_failed"}

\* the initialization in the Config arm of DatabaseConsumer succeeds only
\* when create_database, ping, both create_table calls and
\* insert_scan_state_sync succeeded
DbInitSucceeds(outcome) == outcome = "ok"

\* variant: the test written with > instead of >=
BatchIsFullStrict(d) == Len(d.batch_records) > EffectiveBatchSize(d.batch_size)

\* the len() >= batch_size test after a push
BatchIsFull(d) == Len(d.batch_records) >= EffectiveBatchSize(d.batch_size)

\* the match of DatabaseConsumer. Config: batch_size is taken from the
\* configuration, database is set only when the initialization succeeded.
\* Result: ignored while database is None, else pushed, and the batch is
\* flushed when full. Complete: what is left is flushed. A flush is
\* batch_insert_base_record_sync(batch_records.clone()) then clear(); the
\* result of the insert is discarded by let _ =, no log::error! follows it
DatabaseHandle(d, msg, ok) ==
    LET DbFlush(b) ==
            [b EXCEPT !.inserts = Append(@, [records |-> b.batch_records, ok |-> ok]),
                      !.batch_records = <<>>]
        pushed == [d EXCEPT !.batch_records = Append(@, msg.entry)]
    IN  CASE msg.type = "Result" ->
               IF ~d.database THEN d
               ELSE IF BatchIsFull(pushed) THEN DbFlush(pushed) ELSE pushed
          [] msg.type = "Config" ->
               [d EXCEPT !.batch_size = cfg.batch_size,
                         !.database = IF DbInitSucceeds(cfg.db_init) THEN TRUE ELSE @,
                         !.errors = IF DbInitSucceeds(cfg.db_init) THEN @ ELSE Append(@, cfg.db_init)]
          [] msg.type = "Complete" ->
               IF d.database /\ d.batch_records # <<>> THEN DbFlush(d) ELSE d

\* variant: a database sink that handles a message a second time when its
\* insert failed
DatabaseRecvRetrying ==
    /\ sink_pc["database"] = "run"
    /\ LET o == RecvOutcome(cursor["database"], Len(bus), SendersAlive)
           h == handled["database"]
       IN  /\ o # "Pending"
           /\ IF o = "Lagged" THEN SinkLagged("database")
              ELSE IF o = "Closed" THEN SinkClosed("database")
              ELSE \E ok \in BOOLEAN :
                      /\ db' = DatabaseHandle(db, bus[cursor["database"] + 1], ok)
                      /\ UNCHANGED console
                      /\ IF ok \/ (h # <<>> /\ h[Len(h)] = cursor["database"] + 1)
                         THEN SinkTake("database")
                         ELSE /\ handled' = [handled EXCEPT !["database"] = Append(@, cursor["database"] + 1)]
                              /\ UNCHANGED <<sink_pc, cursor, lagged>>
    /\ UNCHANGED <<cfg, callVars, scan_pc, scan_config, walkVars, queue, bus, send_failed>>

DatabaseRecv ==
    /\ sink_pc["database"] = "run"
    /\ LET o == RecvOutcome(cursor["database"], Len(bus), SendersAlive)
       IN  /\ o # "Pending"
           /\ IF o = "Lagged" THEN SinkLagged("database")
              ELSE IF o = "Closed" THEN SinkClosed("database")
              ELSE /\ SinkTake("database")
                   /\ \E ok \in BOOLEAN : db' = DatabaseHandle(db, bus[cursor["database"] + 1], ok)
                   /\ UNCHANGED console
    /\ UNCHANGED <<cfg, callVars, scan_pc, scan_config, walkVars, queue, bus, send_failed>>

\* KafkaConsumer: logs a Result, stops on Complete (its match has no arm
\* for Config, which leaves its state untouched)
KafkaRecv ==
    /\ sink_pc["kafka"] = "run"
    /\ LET o == RecvOutcome(cursor["kafka"], Len(bus), SendersAlive)
       IN  /\ o # "Pending"
           /\ IF o = "Lagged" THEN SinkLagged("kafka")
              ELSE IF o = "Closed" THEN SinkClosed("kafka")
              ELSE SinkTake("kafka") /\ UNCHANGED <<console, db>>
    /\ UNCHANGED <<cfg, callVars, scan_pc, scan_config, walkVars, queue, bus, send_failed>>

Next ==
    \/ ScanParse
    \/ ScanStartConsumers
    \/ ScanSendConfig
    \/ ScanSpawnWalker
    \/ ScanForward
    \/ ScanJoinWalker
    \/ ScanJoinSinks
    \/ ScanShutdown
    \/ WalkCreate
    \/ StorageStep
    \/ WalkRecv
    \/ WalkSend
    \/ WalkComplete
    \/ ConsoleRecv
    \/ DatabaseRecv
    \/ KafkaRecv

Spec == Init /\ [][Next]_vars

\* the steps of one task each; the runtime polls every ready task
ScanTask ==
    \/ ScanParse \/ ScanStartConsumers \/ ScanSendConfig \/ ScanSpawnWalker
    \/ ScanForward \/ ScanJoinWalker \/ ScanJoinSinks \/ ScanShutdown

WalkTask == WalkCreate \/ WalkRecv \/ WalkSend \/ WalkComplete

LiveSpec ==
    /\ Init /\ [][Next]_vars
    /\ WF_vars(ScanTask)
    /\ WF_vars(WalkTask)
    /\ WF_vars(StorageStep)
    /\ WF_vars(ConsoleRecv)
    /\ WF_vars(DatabaseRecv)
    /\ WF_vars(KafkaRecv)

\* the same program when nothing is assumed about the sink tasks: they may
\* be arbitrarily slow or never polled
SlowSinkSpec ==
    /\ Init /\ [][Next]_vars
    /\ WF_vars(ScanTask)
    /\ WF_vars(WalkTask)
    /\ WF_vars(StorageStep)

(***************************************************************************)
(* Properties                                                              *)
(***************************************************************************)
\* the sinks have been subscribed and started
Started == sink_pc["console"] # "absent"

\* the kinds of the messages a sink handled, in order
HandledTypes(s) == [i \in 1..Len(handled[s]) |-> bus[handled[s][i]].type]

\* the kinds of the messages the bus accepted, in order
BusTypes == [i \in 1..Len(bus) |-> bus[i].type]

C2_BusSequence ==
    /\ \A i \in 1..Len(bus) : bus[i].type = "Config" <=> i = 1
    /\ \A i \in 1..Len(bus) : bus[i].type = "Complete" => i = Len(bus)
    /\ (ScanReturned /\ Started) =>
          (Len(bus) >= 2 /\ bus[Len(bus)].type = "Complete"
           /\ Cardinality({i \in 1..Len(bus) : bus[i].type = "Complete"}) = 1
           /\ Cardinality({i \in 1..Len(bus) : bus[i].type = "Config"}) = 1)

\* scan() returned Ok after forwarding Results; the Complete of shutdown()
\* found no receiver and was not accepted
C2_Witness ==
    /\ scan_pc = "ok"
    /\ Len(bus) >= 4
    /\ send_failed = <<CompleteMsg>>

\* every registered sink task has ended
AllSinksDone == \A s \in Registered(cfg) : sink_pc[s] = "done"

\* Complete is on the bus
CompleteSent == Len(bus) >= 1 /\ bus[Len(bus)].type = "Complete"

IsResult(m) == m.type = "Result"

BusResults == [i \in 1..Len(SelectSeq(bus, IsResult)) |-> SelectSeq(bus, IsResult)[i].entry]

\* an expression accepts an entry: evaluate_filter returns true for it
Accepts(expr, e) ==
    evaluate_filter(expr, e.name, e.path, FileType(e), e.mdays, e.size, ExtensionOf(e.path)) = "true"

\* the match/exclude composition: kept iff (no match expression, or one
\* that accepts the entry) and no exclude expression that accepts it
KeptByComposition(e) ==
    /\ \/ scan_config.expressions = <<>>
       \/ \E i \in 1..Len(scan_config.expressions) : Accepts(scan_config.expressions[i], e)
    /\ ~\E i \in 1..Len(scan_config.exclude_expressions) : Accepts(scan_config.exclude_expressions[i], e)

\* C4 (as stated): the Results on the bus are a prefix of the walker's
\* entry sequence restricted to the kept entries, and the whole of it once
\* Complete is on the bus.
C4_ResultsAreKeptEntries ==
    LET kept == SelectSeq(Listing(cfg.path_kind), KeptByComposition)
    IN  /\ Len(BusResults) <= Len(kept)
        /\ BusResults = SubSeq(kept, 1, Len(BusResults))
        /\ CompleteSent => BusResults = kept

\* what holds of the queues in every run: the entries walkdir decided to
\* keep, of those it has received, are on the bus, in the queue or about to
\* be sent, once each and in order
KeptByWalkdir(e) == SkipEntry(scan_config.expressions, scan_config.exclude_expressions, e) = "false"

QueueResults == [i \in 1..Len(SelectSeq(queue, IsResult)) |-> SelectSeq(queue, IsResult)[i].entry]

C4_NothingDroppedInQueues ==
    BusResults \o QueueResults \o (IF walk_pc = "send" THEN <<walk_pending>> ELSE <<>>)
        = SelectSeq(SubSeq(Listing(cfg.path_kind), 1, walk_taken), KeptByWalkdir)

\* C5 (as stated): for every entry walkdir has received, should_skip_file
\* returned false iff the composition keeps the entry.
C5_KeepIffComposition ==
    \A i \in 1..walk_taken :
        KeptByWalkdir(Listing(cfg.path_kind)[i]) <=> KeptByComposition(Listing(cfg.path_kind)[i])

\* C6 (as stated): a run whose storage URI is bad, whose NFS mount fails or
\* whose local root cannot be opened never returns Ok.
C6_InvalidRunReturnsError ==
    cfg.path_kind \in {"nfs_bad_uri", "nfs_mount_fail", "local_missing"} => scan_pc # "ok"

\* some match or exclude expression is rejected by parse_filter_expression
ParseFails ==
    \/ \E i \in 1..Len(cfg.match) : ~parse_filter_expression(cfg.match[i]).ok
    \/ \E i \in 1..Len(cfg.exclude) : ~parse_filter_expression(cfg.exclude[i]).ok

\* C7: when a match or exclude expression fails to parse, scan() goes from
\* parsing straight to its error return: no sink is ever started, nothing
\* is sent on the bus (or attempted), and neither the walker nor the storage
\* task is spawned.
C7_ParseFailureStopsScan ==
    ParseFails =>
        /\ scan_pc \in {"parse", "err"}
        /\ \A s \in AllSinks : sink_pc[s] = "absent"
        /\ bus = <<>> /\ send_failed = <<>>
        /\ walk_pc = "idle" /\ store_pc = "idle" /\ queue = <<>>

\* the failing expression is an exclude expression behind a valid match list
C7_Witness ==
    /\ scan_pc = "err"
    /\ parse_expressions(cfg.match).ok
    /\ ~parse_expressions(cfg.exclude).ok

\* bus positions a sink went past without handling them
Missed(s) == {p \in 1..cursor[s] : \A i \in 1..Len(handled[s]) : handled[s][i] # p}

\* the forwarding loop and the walker are through
PublishingDone ==
    \/ scan_pc = "err"
    \/ scan_pc \in {"join_sinks", "shutdown", "ok"} /\ WalkEnded /\ queue = <<>> /\ CompleteSent

\* C8: with nothing assumed about the speed of the sinks, the forwarding
\* loop and the walker always run to their end; a sink misses a message only
\* if it was signalled lag, and then only messages the ring had already
\* overwritten; a sink that was never signalled lag handled every message
\* up to its position, all of the bus once it is done.
C8_PublisherNeverWaits ==
    /\ <>PublishingDone
    /\ [](\A s \in AllSinks :
            /\ Missed(s) # {} => lagged[s] > 0
            /\ \A p \in Missed(s) : p <= Oldest(Len(bus))
            /\ \A i \in 1..Len(handled[s]) : \A j \in 1..Len(handled[s]) :
                  i < j => handled[s][i] < handled[s][j]
            /\ lagged[s] = 0 => handled[s] = [i \in 1..cursor[s] |-> i]
            /\ (lagged[s] = 0 /\ sink_pc[s] = "done") => Len(handled[s]) = Len(bus))

\* one sink lagged and missed messages while the other one, on a bus that
\* wrapped around, handled all of them
C8_Witness ==
    /\ sink_pc["console"] = "done" /\ lagged["console"] > 0 /\ Missed("console") # {}
    /\ \E s \in AllSinks \ {"console"} :
          /\ sink_pc[s] = "done" /\ lagged[s] = 0
          /\ Len(handled[s]) = Len(bus)
    /\ Len(bus) > BusCap

\* the Result entries the database sink handled, in order
DbHandledResults ==
    LET pos == SelectSeq(handled["database"], LAMBDA p : bus[p].type = "Result")
    IN  [i \in 1..Len(pos) |-> bus[pos[i]].entry]

RECURSIVE Flatten(_)
Flatten(ss) == IF ss = <<>> THEN <<>> ELSE Head(ss) \o Flatten(Tail(ss))

InsertedBatches == [i \in 1..Len(db.inserts) |-> db.inserts[i].records]

DbHandledComplete ==
    /\ handled["database"] # <<>>
    /\ bus[handled["database"][Len(handled["database"])]].type = "Complete"

\* C9: for a database sink that became Ready with batch size B and whose
\* inserts all succeeded: the batches inserted so far followed by the
\* pending records are the Results it handled, in order; every batch
\* inserted on a Result has size B; once it handled Complete nothing is
\* pending and, with n the number of Results, there are (n + B - 1) \div B
\* inserts, the first n \div B of size B and a last one of size n % B if
\* that is not zero.
C9_BatchAccounting ==
    (db.database /\ \A i \in 1..Len(db.inserts) : db.inserts[i].ok) =>
        LET B == cfg.batch_size
            n == Len(DbHandledResults)
        IN  /\ db.batch_size = B
            /\ Flatten(InsertedBatches) \o db.batch_records = DbHandledResults
            /\ Len(db.batch_records) < B
            /\ \A i \in 1..Len(db.inserts) :
                  i <= n \div B => Len(db.inserts[i].records) = B
            /\ ~DbHandledComplete => Len(db.inserts) = n \div B
            /\ DbHandledComplete =>
                  /\ db.batch_records = <<>>
                  /\ Len(db.inserts) = (n + B - 1) \div B
                  /\ n % B # 0 => Len(db.inserts[Len(db.inserts)].records) = n % B

\* three Results with batch size two: one insert of two on the second
\* Result and one of one on Complete
C9_Witness ==
    /\ db.database /\ DbHandledComplete
    /\ cfg.batch_size = 2
    /\ Len(DbHandledResults) = 3
    /\ Len(db.inserts) = 2
    /\ Len(db.inserts[1].records) = 2 /\ Len(db.inserts[2].records) = 1
    /\ \A i \in 1..Len(db.inserts) : db.inserts[i].ok

\* the database sink is enabled and one step of its initialization fails
FailedInit == cfg.db_enabled /\ cfg.db_init # "ok"

FailedInserts == {i \in 1..Len(db.inserts) : ~db.inserts[i].ok}

\* C11 (as stated): every failed batch insert is logged by the sink, its
\* batch is dropped without retry and the buffer cleared, the sink stays
\* Ready, and scan() does not fail because of it.
C11_FailedInsertLoggedAndDropped ==
    FailedInserts # {} =>
        /\ Len(SelectSeq(db.errors, LAMBDA e : e = "insert_failed")) = Cardinality(FailedInserts)
        /\ db.database
        /\ Flatten(InsertedBatches) \o db.batch_records = DbHandledResults
        /\ scan_pc # "err"

\* what the sink does on a failed insert, the log aside: each handled
\* Result is in exactly one batch or still pending, whether or not the
\* insert of its batch failed (no retry, buffer cleared), the sink stays
\* Ready, is not ended by the failure, and scan() does not return an error
C11_FailedInsertDropsBatch ==
    FailedInserts # {} =>
        /\ db.database
        /\ Flatten(InsertedBatches) \o db.batch_records = DbHandledResults
        /\ Len(db.batch_records) < cfg.batch_size
        /\ sink_pc["database"] = "done" => DbHandledComplete
        /\ scan_pc # "err"

\* a failed insert followed by a later one that succeeded
C11_Recovered ==
    /\ Len(db.inserts) = 2
    /\ ~db.inserts[1].ok /\ db.inserts[2].ok
    /\ scan_pc = "ok"

\* C12: the console sink prints its final report at most once, and has
\* printed it exactly once whenever scan() has returned Ok, also when no
\* Result was sent and when the console sink was signalled lag.
C12_ReportPrintedOnce ==
    /\ console.printed <= 1
    /\ scan_pc = "ok" => (console.printed = 1 /\ sink_pc["console"] = "done")

\* a completed run in which the console sink lagged, lost Config and
\* still printed its report
C12_Witness ==
    /\ scan_pc = "ok"
    /\ lagged["console"] > 0
    /\ ~console.config_received
    /\ console.printed = 1

\* a completed run without any Result
C12_EmptyRun ==
    /\ scan_pc = "ok"
    /\ BusTypes = <<"Config", "Complete">>
    /\ console.printed = 1

IsDirEntry(e) == e.is_dir

IsFileEntry(e) == ~e.is_dir

KeptFile(e) == ~e.is_dir /\ KeptByWalkdir(e)

KeptDir(e) == e.is_dir /\ KeptByWalkdir(e)

\* C13 (as stated): when the console sink, never lagging, prints its report
\* after a walk that ran to its end, total_files and total_dirs count every
\* enumerated file and directory, matched_files and matched_dirs the kept
\* ones.
C13_CountersAtComplete ==
    (console.printed = 1 /\ lagged["console"] = 0 /\ walk_pc # "panicked") =>
        /\ console.total_files = Len(SelectSeq(Listing(cfg.path_kind), IsFileEntry))
        /\ console.total_dirs = Len(SelectSeq(Listing(cfg.path_kind), IsDirEntry))
        /\ console.matched_files = Len(SelectSeq(Listing(cfg.path_kind), KeptFile))
        /\ console.matched_dirs = Len(SelectSeq(Listing(cfg.path_kind), KeptDir))

\* what the console sink does count: the Results it handled, which are kept
\* entries only
C13_TotalsCountKeptEntries ==
    (console.printed = 1 /\ lagged["console"] = 0 /\ walk_pc # "panicked") =>
        /\ console.total_files = Len(SelectSeq(Listing(cfg.path_kind), KeptFile))
        /\ console.total_dirs = Len(SelectSeq(Listing(cfg.path_kind), KeptDir))
        /\ console.matched_files = 0
        /\ console.matched_dirs = 0

\* a scan of an existing empty directory without filters that is through
EmptyDirScanned ==
    /\ cfg.path_kind \in {"local_empty", "nfs_empty"}
    /\ cfg.match = <<>> /\ cfg.exclude = <<>>
    /\ CompleteSent

\* C14 (as stated): a scan over an existing empty directory with no filters
\* sends Config and Complete and no Result.
C14_EmptyDirNoResults ==
    EmptyDirScanned => BusTypes = <<"Config", "Complete">>

\* C14 (amended): such a scan sends Config first and Complete last; in
\* between the local backend sends exactly one Result, the scan root
\* itself, and the NFS backend sends none.
C14_EmptyDirRootOnly ==
    EmptyDirScanned =>
        /\ cfg.path_kind = "local_empty" =>
              (BusTypes = <<"Config", "Result", "Complete">> /\ BusResults = <<RootEntry>>)
        /\ cfg.path_kind = "nfs_empty" => BusTypes = <<"Config", "Complete">>

\* the completed scan of an empty local directory, the root on the bus and
\* counted as a directory by the console sink
C14_Witness ==
    /\ cfg.path_kind = "local_empty"
    /\ scan_pc = "ok"
    /\ BusResults = <<RootEntry>>
    /\ console.total_dirs = 1

(***************************************************************************)
(* The storage walkers, called on their own.  Paths are sequences of path  *)
(* components, as PathBuf sees them.                                       *)
(***************************************************************************)
\* largest depth limit that is tried
MaxDepthArg == 3

\* the trees that are walked, in directory order: the empty one; a.txt,
\* b.log and d/ holding c.txt; and the tree of the examples, a.txt, b.log,
\* d/ holding c.txt and e/ holding f.txt, and l, a symbolic link to d
Trees ==
    LET Node(path, ftype) == [path |-> path, ftype |-> ftype]
    IN  { << >>,
          << Node(<<"a.txt">>, "file"), Node(<<"b.log">>, "file"), Node(<<"d">>, "dir"),
             Node(<<"d", "c.txt">>, "file") >>,
          << Node(<<"a.txt">>, "file"), Node(<<"b.log">>, "file"), Node(<<"d">>, "dir"),
             Node(<<"d", "c.txt">>, "file"), Node(<<"d", "e">>, "dir"),
             Node(<<"d", "e", "f.txt">>, "file"), Node(<<"l">>, "symlink") >> }

\* the scan root, /r or the export r of an NFS server
ScanRoot == <<"r">>

IsPrefix(p, q) == Len(p) <= Len(q) /\ SubSeq(q, 1, Len(p)) = p

\* the nodes directly inside directory dir (relative to the root)
DirChildren(tree, dir) ==
    SelectSeq(tree, LAMBDA n : Len(n.path) = Len(dir) + 1 /\ IsPrefix(dir, n.path))

StorageEntry(name, path, relative_path, is_dir, is_symlink) ==
    [name |-> name, path |-> path, relative_path |-> relative_path, is_dir |-> is_dir, is_symlink |-> is_symlink]

\* Path::strip_prefix(base), unwrapped
get_relative_path(target, base) == SubSeq(target, Len(base) + 1, Len(target))

\* READDIRPLUS3 of a directory: the server lists "." and ".." with the
\* rest; the link l leads to the directory d
Readdirplus(tree, dir) ==
    LET resolved == IF dir # <<>> /\ dir[1] = "l" THEN <<"d">> \o Tail(dir) ELSE dir
    IN  << [name |-> ".", ftype |-> "dir"], [name |-> "..", ftype |-> "dir"] >>
            \o [i \in 1..Len(DirChildren(tree, resolved)) |->
                  [name |-> DirChildren(tree, resolved)[i].path[Len(dir) + 1],
                   ftype |-> DirChildren(tree, resolved)[i].ftype]]

\* variant: attributes taken from the target of a link, as stat would
build_storage_entry_following_links(entry, dir_path) ==
    StorageEntry(entry.name, Append(dir_path, entry.name),
                 get_relative_path(Append(dir_path, entry.name), dir_path),
                 entry.ftype \in {"dir", "symlink"}, entry.ftype = "symlink")

\* build_storage_entry_detailed(entry, dir_path): the path is dir_path joined
\* with the name, relative_path is that path stripped of dir_path
build_storage_entry_detailed(entry, dir_path) ==
    StorageEntry(entry.name, Append(dir_path, entry.name),
                 get_relative_path(Append(dir_path, entry.name), dir_path),
                 entry.ftype = "dir", entry.ftype = "symlink")

\* list_dir_internal: every entry of the reply is built and sent
list_dir_internal(tree, dir_path) ==
    [i \in 1..Len(Readdirplus(tree, get_relative_path(dir_path, ScanRoot))) |->
        build_storage_entry_detailed(Readdirplus(tree, get_relative_path(dir_path, ScanRoot))[i], dir_path)]

\* variant: a recursion that goes one level further than the limit allows
NfsDescendsOneMore(is_dir, current_depth, max_depth) == is_dir /\ (max_depth = 0 \/ current_depth < max_depth)

\* the test that guards the recursive call
NfsDescends(is_dir, current_depth, max_depth) == is_dir /\ (max_depth = 0 \/ current_depth < max_depth - 1)

\* list_dir_recursive_internal: "." and ".." are skipped, every other entry
\* is sent and, when it is a directory the limit allows, listed in turn
RECURSIVE list_dir_recursive_internal(_, _, _, _)
RECURSIVE NfsEntries(_, _, _, _, _)
NfsEntries(tree, dir_path, entries, current_depth, max_depth) ==
    IF entries = <<>> THEN <<>>
    ELSE LET e == build_storage_entry_detailed(Head(entries), dir_path)
             rest == NfsEntries(tree, dir_path, Tail(entries), current_depth, max_depth)
         IN  IF Head(entries).name \in {".", ".."} THEN rest
             ELSE <<e>>
                  \o (IF NfsDescends(e.is_dir, current_depth, max_depth)
                      THEN list_dir_recursive_internal(tree, e.path, current_depth + 1, max_depth)
                      ELSE <<>>)
                  \o rest

list_dir_recursive_internal(tree, dir_path, current_depth, max_depth) ==
    NfsEntries(tree, dir_path, Readdirplus(tree, get_relative_path(dir_path, ScanRoot)), current_depth, max_depth)

\* Option<usize>
None == [some |-> FALSE, value |-> 0]

Some(n) == [some |-> TRUE, value |-> n]

\* NFSStorage::walkdir: depth.unwrap_or(0), the listing starts below the
\* export root at current depth 0
NFSStorage_walkdir(tree, depth) ==
    list_dir_recursive_internal(tree, ScanRoot, 0, IF depth.some THEN depth.value ELSE 0)

\* the path of a node relative to the root, made absolute
FullPath(rel) == ScanRoot \o rel

\* the StorageEntry LocalStorage::walkdir builds from entry.metadata(),
\* which does not follow links: name is the final component of the path,
\* relative_path the path below the scan root
LocalEntry(rel, ftype) ==
    StorageEntry(FullPath(rel)[Len(FullPath(rel))], FullPath(rel), get_relative_path(FullPath(rel), ScanRoot),
                 ftype = "dir", ftype = "symlink")

\* WalkDir with follow_links(false) and max_depth: the items inside the
\* directories at depth d - 1, depth first, directories only being entered
RECURSIVE WalkDirNodes(_, _, _, _)
WalkDirNodes(tree, nodes, d, depth) ==
    IF nodes = <<>> \/ (depth.some /\ d > depth.value) THEN <<>>
    ELSE <<LocalEntry(Head(nodes).path, Head(nodes).ftype)>>
         \o (IF Head(nodes).ftype = "dir"
             THEN WalkDirNodes(tree, DirChildren(tree, Head(nodes).path), d + 1, depth)
             ELSE <<>>)
         \o WalkDirNodes(tree, Tail(nodes), d, depth)

\* LocalStorage::walkdir: WalkDir::new(root) yields the root at depth 0,
\* then its contents
LocalStorage_walkdir(tree, depth) ==
    <<LocalEntry(<<>>, "dir")>> \o WalkDirNodes(tree, DirChildren(tree, <<>>), 1, depth)

\* list_local_dir: read_dir of root joined with the path
list_local_dir(tree, dir) ==
    [i \in 1..Len(DirChildren(tree, dir)) |-> LocalEntry(DirChildren(tree, dir)[i].path, DirChildren(tree, dir)[i].ftype)]

\* Storage::walkdir and Storage::list_dir dispatch on the backend
\* (walkdir() in scan.rs passes a depth parameter of 0 as no limit)
StorageOutput(c) ==
    LET depth == IF c.depth > 0 THEN Some(c.depth) ELSE None
    IN  CASE c.fn = "walkdir" /\ c.backend = "local" -> LocalStorage_walkdir(c.tree, depth)
          [] c.fn = "walkdir" /\ c.backend = "nfs" -> NFSStorage_walkdir(c.tree, depth)
          [] c.fn = "list_dir" /\ c.backend = "local" -> list_local_dir(c.tree, c.dir)
          [] c.fn = "list_dir" /\ c.backend = "nfs" -> list_dir_internal(c.tree, FullPath(c.dir))
          [] OTHER -> <<>>

\* the run that is not looked at while a library function is called
IdleScenario ==
    [path_kind |-> "local", match |-> <<>>, exclude |-> <<>>, db_enabled |-> FALSE,
     kafka_enabled |-> FALSE, batch_size |-> 1, db_init |-> "ok"]

\* the walker sends its next entry on the channel
WalkdirEmit ==
    /\ call.fn = "walkdir"
    /\ Len(ret) < Len(StorageOutput(call))
    /\ ret' = Append(ret, StorageOutput(call)[Len(ret) + 1])
    /\ UNCHANGED <<call, cfg, scan_pc, scan_config, walkVars, queue, bus, send_failed, sinkVars>>

\* the single-level listing sends its next entry
ListDirEmit ==
    /\ call.fn = "list_dir"
    /\ Len(ret) < Len(StorageOutput(call))
    /\ ret' = Append(ret, StorageOutput(call)[Len(ret) + 1])
    /\ UNCHANGED <<call, cfg, scan_pc, scan_config, walkVars, queue, bus, send_failed, sinkVars>>

\* the call has produced all of its output
CallDone == Len(ret) = Len(StorageOutput(call))

PathSet(out) == {out[i].path : i \in 1..Len(out)}

\* the paths of the nodes of a tree at most k levels below the root
NodesWithin(tree, k) == {FullPath(tree[i].path) : i \in {j \in 1..Len(tree) : Len(tree[j].path) <= k}}

AllNodes(tree) == NodesWithin(tree, Len(tree) + 1)

OtherBackend(c) == [c EXCEPT !.backend = IF c.backend = "local" THEN "nfs" ELSE "local"]

\* C15 (as stated): a finished walk that emitted something emitted, with
\* depth 0, the whole tree;
\* with depth N >= 1 it emitted the root and the N - 1 levels below it and
\* nothing else; the other backend emits the same set.
C15_DepthMeansRootAndLevels ==
    (call.fn = "walkdir" /\ CallDone /\ ret # <<>>) =>
        /\ call.depth = 0 => AllNodes(call.tree) \subseteq PathSet(ret)
        /\ call.depth >= 1 => PathSet(ret) = {ScanRoot} \cup NodesWithin(call.tree, call.depth - 1)
        /\ PathSet(ret) = PathSet(StorageOutput(OtherBackend(call)))

\* what the walkers emit: the local walker the root and the N levels below
\* it, the NFS walker those N levels without the root; depth 0 is no limit
C15_WalkersByLevel ==
    (call.fn = "walkdir" /\ CallDone) =>
        LET below == IF call.depth = 0 THEN AllNodes(call.tree) ELSE NodesWithin(call.tree, call.depth)
        IN  PathSet(ret) = IF call.backend = "local" THEN {ScanRoot} \cup below ELSE below

\* C16 (as stated): a finished walk with depth 1 emitted exactly the
\* immediate children of the root.
C16_DepthOneChildrenOnly ==
    (call.fn = "walkdir" /\ call.depth = 1 /\ CallDone) => PathSet(ret) = NodesWithin(call.tree, 1)

\* C17 (as stated): no listing, recursive or single-level, emits an entry
\* named "." or "..".
C17_NoDotEntries ==
    call.fn \in {"walkdir", "list_dir"} => \A i \in 1..Len(ret) : ret[i].name \notin {".", ".."}

\* the recursive walkers do leave "." and ".." out
C17_WalkdirNoDotEntries ==
    call.fn = "walkdir" => \A i \in 1..Len(ret) : ret[i].name \notin {".", ".."}

\* paths of the symbolic links of a tree
LinkPaths(tree) == {FullPath(tree[i].path) : i \in {j \in 1..Len(tree) : tree[j].ftype = "symlink"}}

C19_RelativeToScanRoot ==
    call.fn = "walkdir" =>
        \A i \in 1..Len(ret) :
            /\ ScanRoot \o ret[i].relative_path = ret[i].path
            /\ Len(ret[i].relative_path) = Len(ret[i].path) - Len(ScanRoot)
            /\ ret[i].relative_path = <<>> <=> ret[i].path = ScanRoot

\* what the NFS walker computes: the path relative to the directory being
\* listed, that is the bare name
C19_NfsRelativeToParent ==
    (call.fn = "walkdir" /\ call.backend = "nfs") =>
        \A i \in 1..Len(ret) : ret[i].relative_path = <<ret[i].name>>

(***************************************************************************)
(* The like operator, evaluated on its own.                                *)
(***************************************************************************)
\* evaluate_filter on the single condition name like pattern
LikeEvaluate ==
    /\ call.fn = "like"
    /\ ret = <<>>
    /\ ret' = <<EvalCondition(StrCond("Name", "like", call.pattern), call.name, call.name,
                              <<"f", "i", "l", "e">>, 0, 0, <<>>)>>
    /\ UNCHANGED <<call, cfg, scan_pc, scan_config, walkVars, queue, bus, send_failed, sinkVars>>

\* s can be obtained from pattern p by replacing each % with some string
RECURSIVE Wildcard(_, _)
Wildcard(p, s) ==
    IF p = <<>> THEN s = <<>>
    ELSE IF Head(p) = "%" THEN Wildcard(Tail(p), s) \/ (s # <<>> /\ Wildcard(p, Tail(s)))
    ELSE s # <<>> /\ Head(s) = Head(p) /\ Wildcard(Tail(p), Tail(s))

\* exactly one % (leading, trailing or inside), or a leading and a trailing one
OneWildcardForm(p) ==
    \/ CountChar(p, "%") = 1
    \/ CountChar(p, "%") = 2 /\ p[1] = "%" /\ p[Len(p)] = "%"

\* C20 (as stated): for a pattern of one of these forms like returns true
\* exactly when the value is the pattern with each % replaced by a string.
C20_LikeIsWildcard ==
    (call.fn = "like" /\ ret # <<>> /\ OneWildcardForm(call.pattern)) =>
        ret[1] = Truth(Wildcard(call.pattern, call.name))

\* the % of the pattern is neither its first nor its last character
InfixForm(p) == CountChar(p, "%") = 1 /\ p[1] # "%" /\ p[Len(p)] # "%"

\* where like and the wildcard reading do agree: on every such pattern but
\* the lone %, provided the value of an infix pattern is long enough for its
\* prefix and suffix not to overlap
C20_LikeAgreesWithoutOverlap ==
    (/\ call.fn = "like" /\ ret # <<>> /\ OneWildcardForm(call.pattern)
     /\ call.pattern # <<"%">>
     /\ InfixForm(call.pattern) => Len(call.name) >= Len(call.pattern) - 1) =>
        ret[1] = Truth(Wildcard(call.pattern, call.name))

\* the examples: my%txt matches my_document.txt
C20_Examples ==
    /\ call.fn = "like" /\ ret = <<"true">>
    /\ call.pattern = <<"m", "y", "%", "t", "x", "t">>
    /\ call.name = <<"m", "y", "_", "d", "o", "c", "u", "m", "e", "n", "t", ".", "t", "x", "t">>

(***************************************************************************)
(* Filter language: parse of the expression text (app/src/scan/filter.rs). *)
(* The text is a sequence of characters; the only whitespace character of  *)
(* the model is the blank.                                                 *)
(***************************************************************************)
\* str::trim_start
RECURSIVE TrimStart(_)
TrimStart(s) == IF s # <<>> /\ Head(s) = " " THEN TrimStart(Tail(s)) ELSE s

\* str::trim: trim_start, then trim_end
Trim(s) ==
    LET RECURSIVE TrimEnd(_)
        TrimEnd(t) == IF t # <<>> /\ t[Len(t)] = " " THEN TrimEnd(SubSeq(t, 1, Len(t) - 1)) ELSE t
    IN  TrimEnd(TrimStart(s))

\* str::find: offset of the first occurrence of p in s, -1 for None
Find(s, p) ==
    IF Contains(s, p)
    THEN CHOOSE i \in 0..(Len(s) - Len(p)) :
             /\ SubSeq(s, i + 1, i + Len(p)) = p
             /\ \A j \in 0..(i - 1) : SubSeq(s, j + 1, j + Len(p)) # p
    ELSE -1

\* the slice &s[..i]
Upto(s, i) == SubSeq(s, 1, i)

\* the slice &s[i..]
From(s, i) == SubSeq(s, i + 1, Len(s))

\* str::split(sep): the pieces between the occurrences of sep, left to right
RECURSIVE Split(_, _)
Split(s, sep) ==
    LET i == Find(s, sep)
    IN  IF i < 0 THEN <<s>> ELSE <<Upto(s, i)>> \o Split(From(s, i + Len(sep)), sep)

\* extract_quoted_value(expr, ""): every call passes the empty prefix. The
\* text between the first double quote and the next one, else between the
\* first single quote and the next one, else
\* split_whitespace().next().unwrap_or("")
extract_quoted_value(expr) ==
    LET rest == TrimStart(expr)
        Quoted(quote_char) ==
            /\ Find(rest, <<quote_char>>) >= 0
            /\ Find(From(rest, Find(rest, <<quote_char>>) + 1), <<quote_char>>) >= 0
        BetweenQuotes(quote_char) ==
            LET after_quote == From(rest, Find(rest, <<quote_char>>) + 1)
            IN  Upto(after_quote, Find(after_quote, <<quote_char>>))
        first_token == IF Find(rest, <<" ">>) < 0 THEN rest ELSE Upto(rest, Find(rest, <<" ">>))
    IN  IF Quoted("\"") THEN BetweenQuotes("\"")
        ELSE IF Quoted("'") THEN BetweenQuotes("'")
        ELSE first_token

\* parse_single_condition on the text of one part: Some(condition), None
\* (NoCond) or Err (ParseError). The branches in the order of the code:
\* " in name", " in path", " like ", the loop over the comparison operators
\* (the first operator that occurs in the text and has a known field on its
\* left decides; an operator with another field on its left is passed
\* over), then " contains ", " starts with " and " ends with ", whose value
\* starts 9, 12 and 10 characters after the keyword's offset
parse_single_condition_text(part) ==
    LET expr == Trim(part)
        KwName == <<"n", "a", "m", "e">>
        KwPath == <<"p", "a", "t", "h">>
        KwType == <<"t", "y", "p", "e">>
        KwModified == <<"m", "o", "d", "i", "f", "i", "e", "d">>
        KwSize == <<"s", "i", "z", "e">>
        KwExtension == <<"e", "x", "t", "e", "n", "s", "i", "o", "n">>
        OperatorTexts ==
            << [text |-> <<"=", "=">>, name |-> "=="], [text |-> <<"!", "=">>, name |-> "!="],
               [text |-> <<"<", "=">>, name |-> "<="], [text |-> <<">", "=">>, name |-> ">="],
               [text |-> <<"<">>, name |-> "<"], [text |-> <<">">>, name |-> ">"] >>
        RECURSIVE CompareCondition(_)
        CompareCondition(ops) ==
            IF ops = <<>> THEN NoCond
            ELSE LET op == Head(ops)
                     pos == Find(expr, op.text)
                     field == Trim(Upto(expr, pos))
                     value == Trim(From(expr, pos + Len(op.text)))
                 IN  IF pos < 0 THEN CompareCondition(Tail(ops))
                     ELSE IF field = KwName THEN StrCond("Name", op.name, extract_quoted_value(value))
                     ELSE IF field = KwPath THEN StrCond("Path", op.name, extract_quoted_value(value))
                     ELSE IF field = KwType THEN StrCond("Type", op.name, extract_quoted_value(value))
                     ELSE IF field = KwModified
                          THEN (IF ParsesAsNumber(value) THEN NumCond("Modified", op.name, value)
                                ELSE ParseError)
                     ELSE IF field = KwSize
                          THEN (IF ParsesAsNumber(value) THEN NumCond("Size", op.name, value)
                                ELSE ParseError)
                     ELSE IF field = KwExtension
                          THEN StrCond("Extension", op.name, extract_quoted_value(value))
                     ELSE CompareCondition(Tail(ops))
        KeywordHit(kw, fields) == Find(expr, kw) >= 0 /\ Trim(Upto(expr, Find(expr, kw))) \in fields
        KindOf(field) ==
            CASE field = KwName -> "Name" [] field = KwPath -> "Path" [] field = KwExtension -> "Extension"
        KeywordCondition(kw, skip, operator) ==
            StrCond(KindOf(Trim(Upto(expr, Find(expr, kw)))), operator,
                    extract_quoted_value(From(expr, Find(expr, kw) + skip)))
    IN  IF Find(expr, <<" ", "i", "n", " ", "n", "a", "m", "e">>) >= 0
        THEN StrCond("Name", "contains", extract_quoted_value(Upto(expr, Find(expr, <<" ", "i", "n", " ", "n", "a", "m", "e">>))))
        ELSE IF Find(expr, <<" ", "i", "n", " ", "p", "a", "t", "h">>) >= 0
        THEN StrCond("Path", "contains", extract_quoted_value(Upto(expr, Find(expr, <<" ", "i", "n", " ", "p", "a", "t", "h">>))))
        ELSE IF KeywordHit(<<" ", "l", "i", "k", "e", " ">>, {KwName, KwPath, KwExtension})
        THEN KeywordCondition(<<" ", "l", "i", "k", "e", " ">>, 6, "like")
        ELSE IF CompareCondition(OperatorTexts) # NoCond
        THEN CompareCondition(OperatorTexts)
        ELSE IF KeywordHit(<<" ", "c", "o", "n", "t", "a", "i", "n", "s", " ">>, {KwName, KwPath, KwExtension})
        THEN KeywordCondition(<<" ", "c", "o", "n", "t", "a", "i", "n", "s", " ">>, 9, "contains")
        ELSE IF KeywordHit(<<" ", "s", "t", "a", "r", "t", "s", " ", "w", "i", "t", "h", " ">>, {KwName, KwPath})
        THEN KeywordCondition(<<" ", "s", "t", "a", "r", "t", "s", " ", "w", "i", "t", "h", " ">>, 12, "starts_with")
        ELSE IF KeywordHit(<<" ", "e", "n", "d", "s", " ", "w", "i", "t", "h", " ">>, {KwName, KwPath})
        THEN KeywordCondition(<<" ", "e", "n", "d", "s", " ", "w", "i", "t", "h", " ">>, 10, "ends_with")
        ELSE NoCond

\* parse_filter_expression on the text of an expression: the loop over the
\* parts of split("and"), where an empty part is passed over, the first Err
\* is returned and a None adds nothing
parse_filter_expression_text(expr) ==
    LET RECURSIVE ParseParts(_)
        ParseParts(parts) ==
            IF parts = <<>> THEN [ok |-> TRUE, conditions |-> <<>>]
            ELSE LET part == Trim(Head(parts))
                     c == parse_single_condition_text(part)
                     rest == ParseParts(Tail(parts))
                 IN  IF part = <<>> THEN rest
                     ELSE IF c = ParseError THEN [ok |-> FALSE, conditions |-> <<>>]
                     ELSE IF ~rest.ok THEN rest
                     ELSE IF c = NoCond THEN rest
                     ELSE [ok |-> TRUE, conditions |-> <<c>> \o rest.conditions]
    IN  ParseParts(Split(Trim(expr), <<"a", "n", "d">>))

\* parse_filter_expression called on the text of one expression
ParseEvaluate ==
    /\ call.fn = "parse"
    /\ ret = <<>>
    /\ ret' = <<parse_filter_expression_text(call.expr)>>
    /\ UNCHANGED <<call, cfg, scan_pc, scan_config, walkVars, queue, bus, send_failed, sinkVars>>

\* the non-empty parts of an expression, as parse_filter_expression takes them
ConditionParts(expr) == SelectSeq(Split(Trim(expr), <<"a", "n", "d">>), LAMBDA p : Trim(p) # <<>>)

\* C21: parse_filter_expression is total over malformed input: when it
\* returns Ok, every non-empty part of the expression has produced a
\* condition, so no part is silently dropped.
C21_NoPartDropped ==
    (call.fn = "parse" /\ ret # <<>> /\ ret[1].ok) =>
        Len(ret[1].conditions) = Len(ConditionParts(call.expr))

\* a parse that drops nothing: two well-formed parts, two conditions
C21_WellFormedPartsKept ==
    /\ call.fn = "parse" /\ ret # <<>> /\ ret[1].ok
    /\ call.expr = <<"n", "a", "m", "e", " ", "l", "i", "k", "e", " ", "\"", "a", ".", "t", "x", "t", "\"", " ", "a", "n", "d", " ", "s", "i", "z", "e", " ", ">", "=", " ", "9">>
    /\ Len(ret[1].conditions) = 2

(***************************************************************************)
(* Job ids: sanitize_job_id in the CLI (cli/src/lib.rs) and again in the   *)
(* database sink (app/src/consumer/db.rs), and the table name built from   *)
(* the result (db/src/clickhouse.rs).                                      *)
(***************************************************************************)
\* longest job id that is tried
MaxIdLen == 2

\* str::replace(from, to) for a one-character from and a one-character to
Replace(s, from, to) == [i \in 1..Len(s) |-> IF s[i] = from THEN to ELSE s[i]]

\* a sanitizer that turns dots into dashes
sanitize_job_id_dashes(job_id) ==
    Replace(Replace(Replace(Replace(Replace(job_id, "-", "_"), ".", "-"), " ", "_"), "/", "_"), "\\", "_")

\* cli: sanitize_job_id
sanitize_job_id(job_id) ==
    Replace(Replace(Replace(Replace(Replace(job_id, "-", "_"), ".", "_"), " ", "_"), "/", "_"), "\\", "_")

\* app/consumer/db.rs: the private sanitize_job_id of the database sink
DatabaseConsumer_sanitize_job_id(job_id) ==
    Replace(Replace(Replace(Replace(Replace(job_id, "-", "_"), ".", "_"), " ", "_"), "/", "_"), "\\", "_")

\* ClickHouseDatabase::get_scan_base_table_name
get_scan_base_table_name(job_id) ==
    LET SCAN_BASE_TABLE_BASE_NAME == <<"s", "c", "a", "n", "_", "b", "a", "s", "e">>
    IN  SCAN_BASE_TABLE_BASE_NAME \o <<"_">> \o job_id

\* prepare_job: the id given on the command line becomes the job id
PrepareJob ==
    /\ call.fn = "sanitize"
    /\ ret = <<>>
    /\ ret' = <<sanitize_job_id(call.id)>>
    /\ UNCHANGED <<call, cfg, scan_pc, scan_config, walkVars, queue, bus, send_failed, sinkVars>>

\* the Config arm of the database sink: params.id is sanitized again
SinkJobId ==
    /\ call.fn = "sanitize"
    /\ Len(ret) = 1
    /\ ret' = ret \o <<DatabaseConsumer_sanitize_job_id(ret[1])>>
    /\ UNCHANGED <<call, cfg, scan_pc, scan_config, walkVars, queue, bus, send_failed, sinkVars>>

\* create_database(&db_config, current_job_id): the name of the base table
SinkTableName ==
    /\ call.fn = "sanitize"
    /\ Len(ret) = 2
    /\ ret' = ret \o <<get_scan_base_table_name(ret[2])>>
    /\ UNCHANGED <<call, cfg, scan_pc, scan_config, walkVars, queue, bus, send_failed, sinkVars>>

\* C22: sanitize_job_id is idempotent: the id the database sink obtains by
\* sanitizing the CLI's job id again is the CLI's job id, and a further
\* application of either function leaves it unchanged.
C22_SanitizeIdempotent ==
    (call.fn = "sanitize" /\ Len(ret) >= 2) =>
        /\ ret[2] = ret[1]
        /\ sanitize_job_id(ret[2]) = ret[2]
        /\ DatabaseConsumer_sanitize_job_id(ret[2]) = ret[2]

\* an id that the first application changes has gone through both
C22_Witness ==
    /\ call.fn = "sanitize" /\ Len(ret) >= 2
    /\ call.id = <<".", "-">>
    /\ ret[1] = <<"_", "_">>

\* [A-Za-z0-9_] within the characters of the model: those of the ids and the
\* letters of the table prefix
WordChars == {"a", "Z", "7", "_", "s", "c", "n", "b", "e"}

OnlyWordChars(s) == \A i \in 1..Len(s) : s[i] \in WordChars

\* C23: for every printable id the sanitized id, and so the table name
\* derived from it, contains only characters of [A-Za-z0-9_].
C23_OnlyWordCharacters ==
    (call.fn = "sanitize" /\ Len(ret) = 3) =>
        OnlyWordChars(ret[2]) /\ OnlyWordChars(ret[3])

\* what the sanitizer does guarantee: none of the five characters it
\* replaces is left, and an id made of word characters and those five
\* gives a table name of word characters
ReplacedChars == {"-", ".", " ", "/", "\\"}

C23_ReplacedCharactersGone ==
    (call.fn = "sanitize" /\ Len(ret) = 3) =>
        /\ \A i \in 1..Len(ret[3]) : ret[3][i] \notin ReplacedChars
        /\ (\A i \in 1..Len(call.id) : call.id[i] \in WordChars \cup ReplacedChars)
               => OnlyWordChars(ret[3])

(***************************************************************************)
(* parse_nfs_path (storage/src/lib.rs) on the text of an NFS location.     *)
(***************************************************************************)
\* nfs3_types::portmap::PMAP_PORT
PMAP_PORT == 111

\* str::parse::<u16> on an unsigned decimal: digits, value below 2^16
ParsesAsU16(v) == ParsesAsNumber(v) /\ NumberValue(v) < 65536

\* a panic of parse_nfs_path
NfsPanic == [ok |-> FALSE, server |-> <<>>, port |-> 0, path |-> <<>>]

NfsTriple(server, port, path) == [ok |-> TRUE, server |-> server, port |-> port, path |-> path]

\* a path that is returned as it was written
raw_path(path) == path

\* normalized_path: a path that does not start with / gets one in front
normalized_path(path) == IF StartsWith(path, <<"/">>) THEN path ELSE <<"/">> \o path

\* parse_nfs_url_format, on the text after nfs://; the text before the
\* first / goes through parse_server_and_port
parse_nfs_url_format(path_without_prefix) ==
    LET slash_pos == Find(path_without_prefix, <<"/">>)
        server_part == Trim(Upto(path_without_prefix, slash_pos))
        colon_pos == Find(server_part, <<":">>)
        server == Trim(Upto(server_part, colon_pos))
        port_str == Trim(From(server_part, colon_pos + 1))
        parse_server_and_port ==
            IF server_part = <<>> THEN NfsPanic
            ELSE IF colon_pos < 0 THEN NfsTriple(server_part, PMAP_PORT, <<>>)
            ELSE IF server = <<>> \/ port_str = <<>> \/ ~ParsesAsU16(port_str) THEN NfsPanic
            ELSE NfsTriple(server, NumberValue(port_str), <<>>)
    IN  IF slash_pos < 0 THEN NfsPanic
        ELSE IF ~parse_server_and_port.ok THEN NfsPanic
        ELSE NfsTriple(parse_server_and_port.server, parse_server_and_port.port,
                       From(path_without_prefix, slash_pos))

\* parse_nfs_traditional_format: server, server:path or server:port:path,
\* the path of the last form being parts[2..].join(":")
parse_nfs_traditional_format(nfs_path) ==
    LET parts == Split(nfs_path, <<":">>)
        server == Trim(parts[1])
        RECURSIVE Join(_)
        Join(ps) ==
            IF ps = <<>> THEN <<>>
            ELSE IF Len(ps) = 1 THEN ps[1]
            ELSE ps[1] \o <<":">> \o Join(Tail(ps))
    IN  IF Len(parts) = 1
        THEN (IF server = <<>> THEN NfsPanic ELSE NfsTriple(server, PMAP_PORT, <<"/">>))
        ELSE IF Len(parts) = 2
        THEN (IF server = <<>> \/ Trim(parts[2]) = <<>> THEN NfsPanic
              ELSE NfsTriple(server, PMAP_PORT, normalized_path(Trim(parts[2]))))
        ELSE LET port_str == Trim(parts[2])
                 path == Trim(Join(SubSeq(parts, 3, Len(parts))))
             IN  IF server = <<>> \/ port_str = <<>> \/ path = <<>> THEN NfsPanic
                 ELSE IF ~ParsesAsU16(port_str) THEN NfsPanic
                 ELSE NfsTriple(server, NumberValue(port_str), normalized_path(path))

\* parse_nfs_path: the text after the prefix nfs:// is a URL, any other
\* text a traditional location
parse_nfs_path(text) ==
    LET nfs_path == Trim(text)
    IN  IF nfs_path = <<>> THEN NfsPanic
        ELSE IF StartsWith(nfs_path, <<"n", "f", "s", ":", "/", "/">>)
        THEN parse_nfs_url_format(From(nfs_path, Len(<<"n", "f", "s", ":", "/", "/">>)))
        ELSE parse_nfs_traditional_format(nfs_path)

\* the text of a location of a given form
NfsText(c) ==
    CASE c.form = "url" -> <<"n", "f", "s", ":", "/", "/">> \o c.server \o c.path
      [] c.form = "url_port" -> <<"n", "f", "s", ":", "/", "/">> \o c.server \o <<":">> \o c.port \o c.path
      [] c.form = "server_port_path" -> c.server \o <<":">> \o c.port \o <<":">> \o c.path
      [] c.form = "server_path" -> c.server \o <<":">> \o c.path
      [] c.form = "server" -> c.server

\* parse_nfs_path called on the text of a location
NfsParse ==
    /\ call.fn = "nfs"
    /\ ret = <<>>
    /\ ret' = <<parse_nfs_path(NfsText(call))>>
    /\ UNCHANGED <<call, cfg, scan_pc, scan_config, walkVars, queue, bus, send_failed, sinkVars>>

\* the location is written with a port
HasPort(c) == c.form \in {"url_port", "server_port_path"}

\* a server:path location whose path holds a colon reads as server:port:path
ReadsAsPort(c) == c.form = "server_path" /\ HasChar(c.path, ":")

\* the location is well formed: a server name, a u16 port where one is
\* written, and a path where the form has one
WellFormed(c) ==
    /\ Trim(c.server) # <<>>
    /\ HasPort(c) => ParsesAsU16(Trim(c.port))
    /\ c.form # "server" => Trim(c.path) # <<>>
    /\ ~ReadsAsPort(c)

\* C24: every location of the four forms that is well formed is accepted;
\* an accepted location returns its non-empty server, its explicit port or
\* else the portmapper port, and its path starting with / (a relative path
\* gets a / in front, a location without path gets /); an empty input, an
\* empty server name or a port that is no u16 is a panic.
C24_ParseNfsPath ==
    (call.fn = "nfs" /\ ret # <<>>) =>
        /\ WellFormed(call) => ret[1].ok
        /\ ret[1].ok =>
             /\ ret[1].server # <<>>
             /\ ret[1].server = Trim(call.server)
             /\ ret[1].port = (IF HasPort(call) THEN NumberValue(Trim(call.port)) ELSE PMAP_PORT)
             /\ HasPort(call) => ret[1].port < 65536
             /\ StartsWith(ret[1].path, <<"/">>)
             /\ ret[1].path = (IF call.form = "server" THEN <<"/">>
                               ELSE IF StartsWith(Trim(call.path), <<"/">>) THEN Trim(call.path)
                               ELSE <<"/">> \o Trim(call.path))
        /\ Trim(NfsText(call)) = <<>> => ~ret[1].ok
        /\ Trim(call.server) = <<>> => ~ret[1].ok
        /\ (HasPort(call) /\ ~ParsesAsU16(Trim(call.port))) => ~ret[1].ok
        /\ ReadsAsPort(call) => ~ret[1].ok

\* host:path is accepted with the portmapper port and the path /path
C24_Witness ==
    /\ call.fn = "nfs" /\ ret # <<>>
    /\ NfsText(call) = <<"h", "o", "s", "t", ":", "p", "a", "t", "h">>
    /\ ret[1] = NfsTriple(<<"h", "o", "s", "t">>, PMAP_PORT, <<"/", "p", "a", "t", "h">>)

\* nfs://host:2049/exp/x is accepted with port 2049 and the path /exp/x
C24_UrlExample ==
    /\ call.fn = "nfs" /\ ret # <<>>
    /\ NfsText(call) = <<"n", "f", "s", ":", "/", "/", "h", "o", "s", "t", ":", "2", "0", "4", "9", "/", "e", "x", "p", "/", "x">>
    /\ ret[1] = NfsTriple(<<"h", "o", "s", "t">>, 2049, <<"/", "e", "x", "p", "/", "x">>)

(***************************************************************************)
(* ConsumerManager::with_config (app/src/consumer/manager.rs) called on    *)
(* its own with a ConsumerConfig.                                          *)
(***************************************************************************)
\* largest channel_capacity that is tried
MaxCapacity == 3

\* consumers after the conditional add_consumer calls
OptionalConsumers(config) ==
    (IF config.enable_log_consumer THEN <<"log">> ELSE <<>>)
    \o (IF config.enable_database_consumer THEN <<"database">> ELSE <<>>)
    \o (IF config.enable_kafka_consumer THEN <<"kafka">> ELSE <<>>)

\* a manager whose console sink is registered only when it is enabled
with_config_console_optional(config) ==
    IF config.channel_capacity = 0 THEN [ok |-> FALSE, consumers |-> <<>>, capacity |-> 0]
    ELSE [ok |-> TRUE,
          consumers |-> OptionalConsumers(config)
                        \o (IF config.enable_console_consumer THEN <<"console">> ELSE <<>>),
          capacity |-> config.channel_capacity]

\* ConsumerManager::with_config; broadcast::channel panics on capacity 0
with_config(config) ==
    IF config.channel_capacity = 0 THEN [ok |-> FALSE, consumers |-> <<>>, capacity |-> 0]
    ELSE [ok |-> TRUE,
          consumers |-> OptionalConsumers(config) \o <<"console">>,
          capacity |-> config.channel_capacity]

\* ConsumerManager::get_consumer_count
get_consumer_count(manager) == Len(manager.consumers)

\* ConsumerManager::with_config called on a ConsumerConfig
WithConfig ==
    /\ call.fn = "with_config"
    /\ ret = <<>>
    /\ ret' = <<with_config(call.config)>>
    /\ UNCHANGED <<call, cfg, scan_pc, scan_config, walkVars, queue, bus, send_failed, sinkVars>>

\* how many times a sink is registered
TimesRegistered(manager, sink) ==
    Cardinality({i \in 1..Len(manager.consumers) : manager.consumers[i] = sink})

\* the optional sinks a config enables
EnabledOptional(config) ==
    {s \in {"log", "database", "kafka"} :
        \/ s = "log" /\ config.enable_log_consumer
        \/ s = "database" /\ config.enable_database_consumer
        \/ s = "kafka" /\ config.enable_kafka_consumer}

LocalRelative(e) == IF StartsWith(e.path, <<"/", "r", "/">>) THEN From(e.path, Len(<<"/", "r", "/">>)) ELSE <<>>

\* StorageEntity.relative_path as walkdir copies it from the StorageEntry
\* (the NFS walker strips the directory being listed, which leaves the name)
RelativePathOf(kind, e) == IF kind \in {"local", "local_empty"} THEN LocalRelative(e) ELSE e.name

\* src_storage.is_local() && dest_storage.is_local()
BothLocal == cfg.path_kind \in {"local", "local_empty"} /\ call.dest_kind = "local"

\* !entity.relative_path.is_empty() && !entity.is_dir
Copyable(e) == RelativePathOf(cfg.path_kind, e) # <<>> /\ ~e.is_dir

\* format!("{}/{}", dest_storage.get_root(), entity.relative_path)
\* with the destination root /t
DestPath(e) == <<"/", "t">> \o <<"/">> \o RelativePathOf(cfg.path_kind, e)

\* the runs of sync that are explored: a walking source, with and without a
\* match expression, the console sink only, and a destination of each
\* backend (create_storage succeeds on the first two)
SyncInit ==
    /\ call \in [fn : {"sync"}, dest_kind : {"local", "nfs", "s3_no_credentials"}]
    /\ ret = <<>>
    /\ cfg \in { c \in Scenarios :
                   /\ c.path_kind \in {"local", "local_empty", "nfs"}
                   /\ c.match \in {<<>>, <<Raw.TypeFile>>, <<Raw.LikeTxt>>}
                   /\ c.exclude = <<>>
                   /\ ~c.db_enabled /\ ~c.kafka_enabled }
    /\ ScanIdle

\* the grace sleep, tokio::spawn(walkdir(scan_config, tx)), then
\* create_storage(&params.src_path)? and create_storage(&params.dest_path)?
SyncSpawnWalker ==
    /\ call.fn = "sync"
    /\ scan_pc = "sleep"
    /\ walk_pc' = "create"
    /\ scan_pc' = IF call.dest_kind = "s3_no_credentials" THEN "err" ELSE "forward"
    /\ UNCHANGED <<cfg, callVars, scan_config, walk_pending, walk_taken, store_pc, store_pos, store_chan, queue, bus, send_failed, sinkVars>>

\* the Result arm after the broadcast: between two local storages a file
\* with a relative path gets its parent directories and is copied; when
\* create_dir_all fails the loop continues without copying
SyncCopy(e) ==
    IF BothLocal /\ Copyable(e)
    THEN \E mkdir_ok \in BOOLEAN :
            ret' = Append(ret, [op |-> IF mkdir_ok THEN "copy" ELSE "mkdir_failed",
                                from |-> e.path, to |-> DestPath(e)])
    ELSE UNCHANGED ret

\* one iteration of the loop of sync: as in scan, and a Result is copied
SyncForward ==
    /\ call.fn = "sync"
    /\ scan_pc = "forward"
    /\ IF queue # <<>>
       THEN /\ BusSend(Head(queue))
            /\ queue' = Tail(queue)
            /\ scan_pc' = IF Head(queue).type = "Complete" THEN "join_walker" ELSE "forward"
            /\ IF Head(queue).type = "Result" THEN SyncCopy(Head(queue).entry) ELSE UNCHANGED ret
       ELSE /\ WalkEnded
            /\ BusSend(CompleteMsg)
            /\ scan_pc' = "join_walker"
            /\ UNCHANGED <<queue, ret>>
    /\ UNCHANGED <<call, cfg, scan_config, walkVars, sinkVars>>

SyncNext ==
    \/ ScanParse
    \/ ScanStartConsumers
    \/ ScanSendConfig
    \/ SyncSpawnWalker
    \/ SyncForward
    \/ ScanJoinWalker
    \/ ScanJoinSinks
    \/ ScanShutdown
    \/ WalkCreate
    \/ StorageStep
    \/ WalkRecv
    \/ WalkSend
    \/ WalkComplete
    \/ ConsoleRecv

SyncSpec == SyncInit /\ [][SyncNext]_vars

\* the Results the loop has forwarded, in order
ForwardedResults == BusResults

IsCopy(r) == r.op = "copy"

\* the copies the claim asks for: one per forwarded file with a relative path
RECURSIVE CopiesOf(_)
CopiesOf(results) ==
    IF results = <<>> THEN <<>>
    ELSE (IF Copyable(Head(results))
          THEN <<[op |-> "copy", from |-> Head(results).path, to |-> DestPath(Head(results))]>>
          ELSE <<>>) \o CopiesOf(Tail(results))

\* C26: in sync mode the copies performed are, in order, one for each
\* forwarded Result that is no directory and has a relative path, each to
\* the destination root joined with that relative path, and no other.
C26_OneCopyPerFile ==
    call.fn = "sync" => SelectSeq(ret, IsCopy) = CopiesOf(ForwardedResults)

\* what the loop does: between two local storages every such Result gets its
\* destination path and, unless its parent directory cannot be created, its
\* copy; with any other backend nothing is copied
C26_LocalToLocalOnly ==
    call.fn = "sync" =>
        /\ BothLocal => [i \in 1..Len(ret) |-> [ret[i] EXCEPT !.op = "copy"]] = CopiesOf(ForwardedResults)
        /\ ~BothLocal => ret = <<>>

\* a sync between local storages that has copied a file and returned
C26_LocalCopied ==
    /\ call.fn = "sync" /\ scan_pc = "ok"
    /\ ret # <<>> /\ ret[1].op = "copy"
    /\ ret[1].to = <<"/", "t", "/", "a", ".", "t", "x", "t">>

(***************************************************************************)
(* The storage walkers when one entry fails.                               *)
(***************************************************************************)
\* An entry fails in one of three ways: "stat" - its attributes cannot be
\* read (metadata() fails, READDIRPLUS carries no attributes); "io" -
\* listing the directory fails in the transport (the RPC returns Err);
\* "denied" - the directory refuses to be listed (EACCES, the reply
\* NFS3ERR_ACCES).
Walked(entries, status) == [entries |-> entries, status |-> status]

\* list_dir_recursive_internal with a failing entry: readdirplus(..).await?
\* returns the transport error to the caller, which logs it and goes on with
\* the next sibling; .unwrap() of an error reply panics and unwinds the
\* task. For an entry of READDIRPLUS without name_attributes
\* build_storage_entry_detailed takes the defaults, neither directory nor link
RECURSIVE list_dir_recursive_faulty(_, _, _, _, _)
RECURSIVE NfsFaultyEntries(_, _, _, _, _, _)
NfsFaultyEntries(tree, fault, dir_path, entries, current_depth, max_depth) ==
    IF entries = <<>> THEN Walked(<<>>, "ok")
    ELSE IF Head(entries).name \in {".", ".."}
    THEN NfsFaultyEntries(tree, fault, dir_path, Tail(entries), current_depth, max_depth)
    ELSE LET raw == IF fault.kind = "stat"
                       /\ fault.path = Append(get_relative_path(dir_path, ScanRoot), Head(entries).name)
                    THEN [name |-> Head(entries).name, ftype |-> "file"] ELSE Head(entries)
             e == build_storage_entry_detailed(raw, dir_path)
             sub == IF NfsDescends(e.is_dir, current_depth, max_depth)
                    THEN list_dir_recursive_faulty(tree, fault, e.path, current_depth + 1, max_depth)
                    ELSE Walked(<<>>, "ok")
             rest == NfsFaultyEntries(tree, fault, dir_path, Tail(entries), current_depth, max_depth)
         IN  IF sub.status = "panic" THEN Walked(<<e>> \o sub.entries, "panic")
             ELSE Walked(<<e>> \o sub.entries \o rest.entries, rest.status)

list_dir_recursive_faulty(tree, fault, dir_path, current_depth, max_depth) ==
    IF fault.kind = "io" /\ fault.path = get_relative_path(dir_path, ScanRoot) THEN Walked(<<>>, "err")
    ELSE IF fault.kind = "denied" /\ fault.path = get_relative_path(dir_path, ScanRoot)
    THEN Walked(<<>>, "panic")
    ELSE NfsFaultyEntries(tree, fault, dir_path, Readdirplus(tree, get_relative_path(dir_path, ScanRoot)),
                          current_depth, max_depth)

\* NFSStorage::walkdir with a failing entry, without depth limit
NFSStorage_walkdir_faulty(tree, fault) == list_dir_recursive_faulty(tree, fault, ScanRoot, 0, 0)

\* WalkDir with a failing entry: the error item of a directory that cannot
\* be read is dropped by filter_map(|e| e.ok()) and the iteration goes on;
\* an entry whose metadata() fails is not sent
RECURSIVE WalkDirFaulty(_, _, _)
WalkDirFaulty(tree, fault, nodes) ==
    IF nodes = <<>> THEN <<>>
    ELSE (IF fault.kind = "stat" /\ fault.path = Head(nodes).path THEN <<>>
          ELSE <<LocalEntry(Head(nodes).path, Head(nodes).ftype)>>)
         \o (IF Head(nodes).ftype = "dir" /\ ~(fault.kind \in {"io", "denied"} /\ fault.path = Head(nodes).path)
             THEN WalkDirFaulty(tree, fault, DirChildren(tree, Head(nodes).path))
             ELSE <<>>)
         \o WalkDirFaulty(tree, fault, Tail(nodes))

\* LocalStorage::walkdir with a failing entry, without depth limit
LocalStorage_walkdir_faulty(tree, fault) ==
    Walked(<<LocalEntry(<<>>, "dir")>> \o WalkDirFaulty(tree, fault, DirChildren(tree, <<>>)), "ok")

\* Storage::walkdir dispatches on the backend
FaultyOutput(c) ==
    IF c.backend = "local" THEN LocalStorage_walkdir_faulty(c.tree, c.fault)
    ELSE NFSStorage_walkdir_faulty(c.tree, c.fault)

\* the storage task has ended: the last element of ret tells how
Ended == ret # <<>> /\ "status" \in DOMAIN ret[Len(ret)]

\* the entries received on the channel
Emitted == SelectSeq(ret, LAMBDA r : "path" \in DOMAIN r)

\* the walker sends its next entry on the channel
FaultyEmit ==
    /\ call.fn = "walkdir_faulty"
    /\ ~Ended
    /\ Len(ret) < Len(FaultyOutput(call).entries)
    /\ ret' = Append(ret, FaultyOutput(call).entries[Len(ret) + 1])
    /\ UNCHANGED <<call, cfg, scan_pc, scan_config, walkVars, queue, bus, send_failed, sinkVars>>

\* the storage task ends: it returns ("ok", or "err" after the error is
\* printed) or is unwound by a panic; the channel closes in each case
FaultyEnd ==
    /\ call.fn = "walkdir_faulty"
    /\ ~Ended
    /\ Len(ret) = Len(FaultyOutput(call).entries)
    /\ ret' = Append(ret, [status |-> FaultyOutput(call).status])
    /\ UNCHANGED <<call, cfg, scan_pc, scan_config, walkVars, queue, bus, send_failed, sinkVars>>

\* the paths the walker emits on the same tree when nothing fails
FaultlessPaths(c) ==
    PathSet(IF c.backend = "local" THEN LocalStorage_walkdir(c.tree, None)
            ELSE NFSStorage_walkdir(c.tree, None))

\* the failing entry and what lies below it
UnderFault(c) == {p \in FaultlessPaths(c) : IsPrefix(FullPath(c.fault.path), p)}

\* C27: when one entry fails the walker task does not abort and ends
\* normally, and every entry that is neither the failing one nor below it
\* is emitted.
C27_FailureSkipped ==
    (call.fn = "walkdir_faulty" /\ Ended) =>
        /\ ret[Len(ret)].status # "panic"
        /\ FaultlessPaths(call) \ UnderFault(call) \subseteq PathSet(Emitted)
        /\ PathSet(Emitted) \subseteq FaultlessPaths(call)

\* what holds of the local walker, and of the NFS walker for every failure
\* but an error reply to the listing of a directory
C27_SkippedUnlessErrorReply ==
    (/\ call.fn = "walkdir_faulty" /\ Ended
     /\ call.backend = "nfs" => call.fault.kind # "denied") =>
        /\ ret[Len(ret)].status = "ok"
        /\ FaultlessPaths(call) \ UnderFault(call) \subseteq PathSet(Emitted)
        /\ PathSet(Emitted) \subseteq FaultlessPaths(call)

\* a local walk over a directory that cannot be read has emitted the link
\* that follows it
C27_LocalWentOn ==
    /\ call.fn = "walkdir_faulty" /\ Ended
    /\ call.backend = "local" /\ call.fault = [path |-> <<"d">>, kind |-> "denied"]
    /\ FullPath(<<"l">>) \in PathSet(Emitted)

(***************************************************************************)
(* One ClickHouseDatabase instance and its temporary table                 *)
(* (db/src/clickhouse.rs). ret is the history of the instance: for each    *)
(* operation its outcome and the scan_temp_table_name it leaves.           *)
(***************************************************************************)
\* longest sequence of operations on one instance
MaxOps == 4

\* format!("temp_files_{}", uuid)
temp_table_name(uuid) == <<"t", "e", "m", "p", "_", "f", "i", "l", "e", "s", "_">> \o uuid

Done(op, ok, name) == [op |-> op, ok |-> ok, name |-> name]

\* self.scan_temp_table_name after the operations so far
CurrentName == IF ret = <<>> THEN None ELSE ret[Len(ret)].name

\* ClickHouseDatabase::new
ClickHouseNew ==
    /\ call.fn = "clickhouse"
    /\ ret = <<>>
    /\ ret' = <<Done("new", TRUE, None)>>
    /\ UNCHANGED <<call, cfg, scan_pc, scan_config, walkVars, queue, bus, send_failed, sinkVars>>

\* create_scan_temporary_table: the name, built from
\* Uuid::new_v4().to_string().replace('-', "_") (here the number of the
\* identifiers drawn so far), is recorded once the CREATE TABLE statement
\* has succeeded
CreateTemp ==
    /\ call.fn = "clickhouse"
    /\ ret # <<>> /\ Len(ret) <= MaxOps
    /\ LET drawn == Len(SelectSeq(ret, LAMBDA r : r.op = "create"))
           uuid == <<"u", "_">> \o <<CASE drawn = 0 -> "0" [] drawn = 1 -> "1" [] drawn = 2 -> "2"
                                     [] drawn = 3 -> "3" [] drawn = 4 -> "4" [] drawn = 5 -> "5"
                                     [] OTHER -> "9">>
       IN  \E executed \in BOOLEAN :
              ret' = Append(ret, Done("create", executed,
                                      IF executed THEN Some(temp_table_name(uuid)) ELSE CurrentName))
    /\ UNCHANGED <<call, cfg, scan_pc, scan_config, walkVars, queue, bus, send_failed, sinkVars>>

\* drop_scan_temporary_table: without a name nothing is done and Ok is
\* returned; the name is cleared once the DROP TABLE statement has succeeded
DropTemp ==
    /\ call.fn = "clickhouse"
    /\ ret # <<>> /\ Len(ret) <= MaxOps
    /\ \E executed \in BOOLEAN :
          ret' = Append(ret, IF ~CurrentName.some THEN Done("drop", TRUE, None)
                             ELSE Done("drop", executed, IF executed THEN None ELSE CurrentName))
    /\ UNCHANGED <<call, cfg, scan_pc, scan_config, walkVars, queue, bus, send_failed, sinkVars>>

\* batch_insert_temp_record_sync: Err without a name, Ok on no events,
\* otherwise the outcome of the insert
InsertTemp ==
    /\ call.fn = "clickhouse"
    /\ ret # <<>> /\ Len(ret) <= MaxOps
    /\ \E events \in 0..1, inserted \in BOOLEAN :
          ret' = Append(ret, IF ~CurrentName.some THEN Done("insert", FALSE, CurrentName)
                             ELSE Done("insert", events = 0 \/ inserted, CurrentName))
    /\ UNCHANGED <<call, cfg, scan_pc, scan_config, walkVars, queue, bus, send_failed, sinkVars>>

\* get_scan_temp_table_name() before the i-th operation of the history
NameBefore(i) == IF i = 1 THEN None ELSE ret[i - 1].name

\* C28: get_scan_temp_table_name() is None before any create, Some(name)
\* with name starting with scan_temp_ after a successful create, None again
\* after a successful drop, and batch_insert_temp_record_sync fails while
\* it is None.
C28_TempTableLifecycle ==
    call.fn = "clickhouse" =>
        \A i \in 1..Len(ret) :
            /\ (\A j \in 1..i : ret[j].op # "create") => ~ret[i].name.some
            /\ (ret[i].op = "create" /\ ret[i].ok) =>
                   (ret[i].name.some /\ StartsWith(ret[i].name.value, <<"s", "c", "a", "n", "_", "t", "e", "m", "p", "_">>))
            /\ (ret[i].op = "drop" /\ ret[i].ok) => ~ret[i].name.some
            /\ (ret[i].op = "insert" /\ ~NameBefore(i).some) => ~ret[i].ok

\* the same life cycle with the prefix the code gives the name
C28_LifecycleOfTempFiles ==
    call.fn = "clickhouse" =>
        \A i \in 1..Len(ret) :
            /\ (\A j \in 1..i : ret[j].op # "create") => ~ret[i].name.some
            /\ (ret[i].op = "create" /\ ret[i].ok) =>
                   (ret[i].name.some /\ StartsWith(ret[i].name.value, <<"t", "e", "m", "p", "_", "f", "i", "l", "e", "s", "_">>))
            /\ (ret[i].op = "drop" /\ ret[i].ok) => ~ret[i].name.some
            /\ (ret[i].op = "insert" /\ ~NameBefore(i).some) => ~ret[i].ok

\* created, dropped, and an insert refused
C28_Cycle ==
    /\ call.fn = "clickhouse" /\ Len(ret) >= 4
    /\ ret[2].op = "create" /\ ret[2].ok
    /\ ret[3].op = "drop" /\ ret[3].ok
    /\ ret[4].op = "insert" /\ ~ret[4].ok

(***************************************************************************)
(* DatabaseFactory (db/src/factory.rs): the registry of database types and *)
(* create_database. ret is the history of the calls made in one process.   *)
(***************************************************************************)
\* longest sequence of factory calls
MaxFactoryCalls == 2

\* DATABASE_REGISTRY after the calls so far: empty until initialize()
\* registers the built-in types
Registry == IF \E i \in 1..Len(ret) : ret[i].op = "initialize" THEN {"clickhouse", "sqlite"} ELSE {}

\* DatabaseFactory::create_database: the creator registered for the type is
\* called on the config; opened tells whether SQLiteDatabase::new could
\* open its file
create_database(registry, config, opened) ==
    LET creator ==
            IF config.db_type = "clickhouse"
            THEN (IF config.clickhouse THEN "Ok" ELSE "ConfigError")
            ELSE (IF ~config.sqlite THEN "ConfigError" ELSE IF opened THEN "Ok" ELSE "SqliteError")
    IN  IF ~config.enabled THEN "ConfigError"
        ELSE IF config.db_type \in registry THEN creator
        ELSE "UnsupportedType"

\* DatabaseFactory::initialize
FactoryInitialize ==
    /\ call.fn = "factory"
    /\ Len(ret) < MaxFactoryCalls
    /\ ret' = Append(ret, [op |-> "initialize"])
    /\ UNCHANGED <<call, cfg, scan_pc, scan_config, walkVars, queue, bus, send_failed, sinkVars>>

\* a call of create_database(config)
FactoryCreate ==
    /\ call.fn = "factory"
    /\ Len(ret) < MaxFactoryCalls
    /\ \E config \in [enabled : BOOLEAN, db_type : {"clickhouse", "sqlite", "unsupported"},
                       clickhouse : BOOLEAN, sqlite : BOOLEAN], opened \in BOOLEAN :
          ret' = Append(ret, [op |-> "create", config |-> config,
                              result |-> create_database(Registry, config, opened)])
    /\ UNCHANGED <<call, cfg, scan_pc, scan_config, walkVars, queue, bus, send_failed, sinkVars>>

\* the result the claim gives a config, "any" where it gives none
ClaimedResult(config) ==
    IF ~config.enabled THEN "ConfigError"
    ELSE IF config.db_type \notin {"clickhouse", "sqlite"} THEN "UnsupportedType"
    ELSE IF config.db_type = "clickhouse" THEN (IF config.clickhouse THEN "Ok" ELSE "ConfigError")
    ELSE "any"

\* C29: create_database returns ConfigError for a disabled config whatever
\* its type, UnsupportedType for an enabled config of an unsupported type,
\* ConfigError for an enabled clickhouse config without its section and Ok
\* for an enabled clickhouse config with its section.
C29_FactoryOutcomes ==
    call.fn = "factory" =>
        \A i \in 1..Len(ret) :
            (ret[i].op = "create" /\ ClaimedResult(ret[i].config) # "any") =>
                ret[i].result = ClaimedResult(ret[i].config)

\* the outcomes are the claimed ones for every call made after initialize()
C29_OutcomesOnceInitialized ==
    call.fn = "factory" =>
        \A i \in 1..Len(ret) :
            (/\ ret[i].op = "create" /\ ClaimedResult(ret[i].config) # "any"
             /\ \E j \in 1..(i - 1) : ret[j].op = "initialize") =>
                ret[i].result = ClaimedResult(ret[i].config)

\* an enabled clickhouse config with its section, created after initialize()
C29_CreatedAfterInitialize ==
    /\ call.fn = "factory" /\ Len(ret) = 2
    /\ ret[1].op = "initialize"
    /\ ret[2].op = "create" /\ ret[2].config.db_type = "clickhouse" /\ ret[2].result = "Ok"

(***************************************************************************)
(* The NFS connection of one listing operation (storage/src/nfs.rs). ret   *)
(* is the history of the connection: the mount, the listing and how the    *)
(* task that owns the connection ends.                                     *)
(***************************************************************************)
\* what the task spawned by NFSStorage::walkdir or NFSStorage::list_dir does
\* with its connection. walkdir: a failed mount returns; the result of
\* list_dir_recursive_internal is printed when it is an error and
\* connection.unmount() follows, unless the listing panicked (.unwrap() of
\* an error reply) and unwound the task. list_dir_internal: mount()?,
\* the READDIRPLUS loop with ? and .unwrap(), then Ok(()) - no unmount.
\* A receiver that is dropped makes tx.send fail: the walker returns Ok(())
\* after the first entry, the listing of one directory breaks out of its
\* for loop.
NfsSession(c) ==
    LET Op(op, status) == [op |-> op, status |-> status]
        at_root == c.fault.path = c.dir
        listing ==
            IF c.entry = "walkdir"
            THEN IF c.rx_dropped /\ ~(at_root /\ c.fault.kind \in {"io", "denied"}) /\ c.tree # <<>>
                 THEN "ok"
                 ELSE list_dir_recursive_faulty(c.tree, c.fault, ScanRoot, 0, 0).status
            ELSE IF at_root /\ c.fault.kind = "io" THEN "err"
            ELSE IF at_root /\ c.fault.kind = "denied" THEN "panic"
            ELSE "ok"
    IN  IF ~c.mount_ok THEN <<Op("mount", "err"), Op("end", IF c.entry = "walkdir" THEN "ok" ELSE "err")>>
        ELSE <<Op("mount", "ok"), Op("list", listing)>>
             \o (IF c.entry = "walkdir" /\ listing # "panic" THEN <<Op("unmount", "ok")>> ELSE <<>>)
             \o <<Op("end", IF c.entry = "walkdir" /\ listing = "err" THEN "ok" ELSE listing)>>

\* the task performs its next operation on the connection
NfsSessionStep ==
    /\ call.fn = "nfs_session"
    /\ Len(ret) < Len(NfsSession(call))
    /\ ret' = Append(ret, NfsSession(call)[Len(ret) + 1])
    /\ UNCHANGED <<call, cfg, scan_pc, scan_config, walkVars, queue, bus, send_failed, sinkVars>>

\* the operations of a given kind in the history
OpsOf(op) == {i \in 1..Len(ret) : ret[i].op = op}

\* C32 (as stated): a listing operation that mounted has issued unmount by
\* the time it ends, whether it completed, failed or lost its receiver.
C32_MountReleased ==
    (call.fn = "nfs_session" /\ OpsOf("end") # {} /\ ret[1].status = "ok") => OpsOf("unmount") # {}

\* what the code does: the recursive walk unmounts unless an error reply
\* unwound its task, the listing of one directory never unmounts
C32_WalkdirReleasesUnlessPanic ==
    (call.fn = "nfs_session" /\ OpsOf("end") # {} /\ ret[1].status = "ok") =>
        (OpsOf("unmount") # {} <=> (call.entry = "walkdir" /\ ret[2].status # "panic"))

\* a recursive walk that lost its receiver has unmounted
C32_WalkdirReleased ==
    /\ call.fn = "nfs_session" /\ call.entry = "walkdir" /\ call.rx_dropped
    /\ OpsOf("end") # {} /\ OpsOf("unmount") # {}

(***************************************************************************)
(* The separator of a filter expression                                    *)
(***************************************************************************)
\* the conditions of the grammar expr := cond (" and " cond)*: the pieces
\* between the separators, each read as one condition
GrammarConditions(expr) ==
    LET pieces == Split(Trim(expr), <<" ", "a", "n", "d", " ">>)
    IN  [i \in 1..Len(pieces) |-> parse_single_condition_text(pieces[i])]

\* every piece between the separators is a well-formed condition
WellFormedConditions(expr) ==
    \A i \in 1..Len(GrammarConditions(expr)) : GrammarConditions(expr)[i] \notin {NoCond, ParseError}

\* C33 (as stated): an expression of k well-formed conditions joined by
\* " and " parses to exactly those k conditions, also when a field or a
\* quoted value contains the letters and.
C33_SplitsAtSeparatorOnly ==
    (call.fn = "parse" /\ ret # <<>> /\ WellFormedConditions(call.expr)) =>
        (ret[1].ok /\ ret[1].conditions = GrammarConditions(call.expr))

\* what split("and") gives: the conditions of the grammar when the letters
\* and occur in the separators only
C33_SplitsWhenAndOnlySeparates ==
    (/\ call.fn = "parse" /\ ret # <<>> /\ WellFormedConditions(call.expr)
     /\ Len(Split(Trim(call.expr), <<"a", "n", "d">>)) = Len(GrammarConditions(call.expr))) =>
        (ret[1].ok /\ ret[1].conditions = GrammarConditions(call.expr))

\* two well-formed conditions around one separator have been parsed to two
C33_TwoConditions ==
    /\ call.fn = "parse" /\ ret # <<>> /\ WellFormedConditions(call.expr)
    /\ Len(GrammarConditions(call.expr)) = 2
    /\ ret[1].ok /\ ret[1].conditions = GrammarConditions(call.expr)

(***************************************************************************)
(* The permissions of an entry on their way into a database record:       *)
(* walkdir formats entry.mode (scan.rs), the database sink reads the text  *)
(* back as a number (db.rs). ret holds the text, then perm.                *)
(***************************************************************************)
\* format_permissions(mode): nine characters, r, w or x where the bit of
\* the owner, group and other triple is set, - where it is not
format_permissions(mode) ==
    LET bit(m, s) == IF (mode \div m) % 2 # 0 THEN s ELSE "-"
    IN  << bit(256, "r"), bit(128, "w"), bit(64, "x"),
           bit(32, "r"), bit(16, "w"), bit(8, "x"),
           bit(4, "r"), bit(2, "w"), bit(1, "x") >>

\* walkdir: let permissions_str = entry.mode.map(format_permissions)
PermFormat ==
    /\ call.fn = "perm"
    /\ ret = <<>>
    /\ ret' = <<IF call.mode.some THEN Some(format_permissions(call.mode.value)) ELSE None>>
    /\ UNCHANGED <<call, cfg, scan_pc, scan_config, walkVars, queue, bus, send_failed, sinkVars>>

\* the database sink: entity.permissions.as_ref()
\* .and_then(|p| u32::from_str_radix(p, 8).ok()).unwrap_or(0), where
\* from_str_radix takes an optional + and then octal digits only (a text
\* of up to ten digits is below 2^30 and fits u32; longer texts are not
\* among the texts format_permissions writes)
PermRecord ==
    /\ call.fn = "perm"
    /\ Len(ret) = 1
    /\ LET OctalDigits == <<"0", "1", "2", "3", "4", "5", "6", "7">>
           DigitOf(ch) == (CHOOSE i \in 1..8 : OctalDigits[i] = ch) - 1
           RECURSIVE Value(_)
           Value(p) == IF p = <<>> THEN 0 ELSE (Value(SubSeq(p, 1, Len(p) - 1)) * 8 + DigitOf(p[Len(p)]))
           from_str_radix(p) ==
               LET digits == IF p # <<>> /\ p[1] = "+" THEN Tail(p) ELSE p
               IN  IF digits # <<>> /\ (\A i \in 1..Len(digits) : \E d \in 1..8 : OctalDigits[d] = digits[i])
                      /\ Len(digits) <= 10
                   THEN Some(Value(digits)) ELSE None
           parsed == IF ~ret[1].some THEN None ELSE from_str_radix(ret[1].value)
       IN  ret' = Append(ret, IF parsed.some THEN parsed.value ELSE 0)
    /\ UNCHANGED <<call, cfg, scan_pc, scan_config, walkVars, queue, bus, send_failed, sinkVars>>

\* C34 (as stated): perm of the record is the permission bits of the
\* entry's mode as an integer (the mode itself, or its low nine bits), and
\* 0 when the entry has no mode.
C34_PermIsMode ==
    (call.fn = "perm" /\ Len(ret) = 2) =>
        IF call.mode.some THEN ret[2] \in {call.mode.value, call.mode.value % 512}
        ELSE ret[2] = 0

\* what the record gets: the text of format_permissions is never a number
\* in base 8, so perm is 0 for every entry
C34_PermAlwaysZero ==
    (call.fn = "perm" /\ Len(ret) = 2) => ret[2] = 0

\* an entry of mode 0o644 has got its text rw-r--r-- and its perm
C34_Formatted ==
    /\ call.fn = "perm" /\ Len(ret) = 2
    /\ call.mode = Some(420)
    /\ ret[1].value = <<"r", "w", "-", "r", "-", "-", "r", "-", "-">>

(***************************************************************************)
(* The age of an entry in days (scan.rs, walkdir). Times are milliseconds  *)
(* since the epoch; ret holds modified_days as the quotient it is computed *)
(* from, diff_ms over the milliseconds of a day.                           *)
(***************************************************************************)
\* let diff_ms = now.checked_sub(mtime.unwrap_or(0)).unwrap_or(0);
\* diff_ms as f64 / 86400000.0. checked_sub is None only when the
\* difference leaves i64, which no time of the model does: the difference
\* is taken as it is, negative when mtime is after now
ModifiedDays ==
    /\ call.fn = "modified_days"
    /\ ret = <<>>
    /\ LET mtime == IF call.mtime.some THEN call.mtime.value ELSE 0
           diff_ms == call.now - mtime
       IN  ret' = <<[diff_ms |-> diff_ms, ms_per_day |-> 86400000]>>
    /\ UNCHANGED <<call, cfg, scan_pc, scan_config, walkVars, queue, bus, send_failed, sinkVars>>

\* C35 (as stated): modified_days is the time from mtime to now in days, 0
\* when mtime is after now or unavailable, and never negative.
C35_ModifiedDays ==
    (call.fn = "modified_days" /\ ret # <<>>) =>
        /\ ret[1].ms_per_day = 86400000
        /\ ret[1].diff_ms >= 0
        /\ ret[1].diff_ms = (IF call.mtime.some /\ call.mtime.value <= call.now
                             THEN call.now - call.mtime.value ELSE 0)

\* what walkdir computes: now - mtime whatever its sign, and the whole of
\* now when there is no mtime
C35_PlainDifference ==
    (call.fn = "modified_days" /\ ret # <<>>) =>
        /\ ret[1].ms_per_day = 86400000
        /\ call.mtime.some => ret[1].diff_ms = call.now - call.mtime.value
        /\ ~call.mtime.some => ret[1].diff_ms = call.now

\* an entry modified one day before now has the age of one day
C35_OneDay ==
    /\ call.fn = "modified_days" /\ ret # <<>>
    /\ call.mtime.some /\ call.now - call.mtime.value = 86400000
    /\ ret[1].diff_ms = ret[1].ms_per_day

(***************************************************************************)
(* Totality of the like operator                                           *)
(***************************************************************************)
\* C39 (as stated): evaluate_filter gives true or false, without aborting,
\* for a like condition of any pattern and any value, and the pattern %
\* matches every value.
C39_LikeIsTotal ==
    (call.fn = "like" /\ ret # <<>>) =>
        /\ ret[1] \in {"true", "false"}
        /\ call.pattern = <<"%">> => ret[1] = "true"

\* what evaluate_filter does: it panics on the pattern % alone, whose
\* slice &value[1..0] is out of order, and is total on every other pattern
C39_TotalButLonePercent ==
    (call.fn = "like" /\ ret # <<>>) =>
        (ret[1] = "panic" <=> call.pattern = <<"%">>)

\* the pattern %% has matched a value
C39_DoublePercent ==
    /\ call.fn = "like" /\ call.pattern = <<"%", "%">>
    /\ ret = <<"true">>

(***************************************************************************)
(* One SQLiteDatabase instance and its temporary table (db/src/sqlite.rs), *)
(* with the same history in ret, and the temporary tables that exist in    *)
(* the database of an instance of either kind.                             *)
(***************************************************************************)
\* SQLiteDatabase::new: scan_temp_table_name is a String, set to
\* scan_temp_<job_id> (here the job j) without any table being created
SqliteNew ==
    /\ call.fn = "sqlite"
    /\ ret = <<>>
    /\ ret' = <<Done("new", TRUE, Some(<<"s", "c", "a", "n", "_", "t", "e", "m", "p", "_", "j">>))>>
    /\ UNCHANGED <<call, cfg, scan_pc, scan_config, walkVars, queue, bus, send_failed, sinkVars>>

\* create_scan_temporary_table: CREATE TABLE IF NOT EXISTS under a name
\* with a fresh identifier, which replaces the recorded name once the
\* statement has succeeded
SqliteCreateTemp ==
    /\ call.fn = "sqlite"
    /\ ret # <<>> /\ Len(ret) <= MaxOps
    /\ LET drawn == Len(SelectSeq(ret, LAMBDA r : r.op = "create"))
           uuid == <<"u", "_">> \o <<CASE drawn = 0 -> "0" [] drawn = 1 -> "1" [] drawn = 2 -> "2"
                                     [] drawn = 3 -> "3" [] drawn = 4 -> "4" [] drawn = 5 -> "5"
                                     [] OTHER -> "9">>
       IN  \E executed \in BOOLEAN :
              ret' = Append(ret, Done("create", executed,
                                      IF executed THEN Some(<<"s", "c", "a", "n", "_", "t", "e", "m", "p", "_">> \o uuid)
                                      ELSE CurrentName))
    /\ UNCHANGED <<call, cfg, scan_pc, scan_config, walkVars, queue, bus, send_failed, sinkVars>>

\* drop_scan_temporary_table: DROP TABLE IF EXISTS of the recorded name,
\* which stays recorded
SqliteDropTemp ==
    /\ call.fn = "sqlite"
    /\ ret # <<>> /\ Len(ret) <= MaxOps
    /\ \E executed \in BOOLEAN : ret' = Append(ret, Done("drop", executed, CurrentName))
    /\ UNCHANGED <<call, cfg, scan_pc, scan_config, walkVars, queue, bus, send_failed, sinkVars>>

\* the temporary tables the instance created that exist after the first n
\* operations of the history: a successful create adds the table it names,
\* a successful drop removes the table recorded before it
RECURSIVE LiveTables(_)
LiveTables(n) ==
    IF n = 0 THEN {}
    ELSE IF ret[n].op = "create" /\ ret[n].ok THEN LiveTables(n - 1) \cup {ret[n].name.value}
    ELSE IF ret[n].op = "drop" /\ ret[n].ok /\ NameBefore(n).some THEN LiveTables(n - 1) \ {NameBefore(n).value}
    ELSE LiveTables(n - 1)

\* C40 (as stated): on one instance at most one temporary table it created
\* exists, the one it records, and none exists after a successful drop.
C40_NoTableOutlivesDrop ==
    (call.fn \in {"clickhouse", "sqlite"} /\ ret # <<>>) =>
        /\ Cardinality(LiveTables(Len(ret))) <= 1
        /\ LiveTables(Len(ret)) # {} => (CurrentName.some /\ LiveTables(Len(ret)) = {CurrentName.value})
        /\ (ret[Len(ret)].op = "drop" /\ ret[Len(ret)].ok) => LiveTables(Len(ret)) = {}

\* what drop does: it removes the table recorded last, and the tables of
\* earlier creates that were not dropped in between stay
C40_LastTableDropped ==
    (call.fn \in {"clickhouse", "sqlite"} /\ ret # <<>>) =>
        /\ (ret[Len(ret)].op = "drop" /\ ret[Len(ret)].ok /\ NameBefore(Len(ret)).some) =>
               NameBefore(Len(ret)).value \notin LiveTables(Len(ret))
        /\ (\A i \in 2..Len(ret) : ret[i].op = "create" => LiveTables(i - 1) = {}) =>
               /\ Cardinality(LiveTables(Len(ret))) <= 1
               /\ (ret[Len(ret)].op = "drop" /\ ret[Len(ret)].ok) => LiveTables(Len(ret)) = {}

\* an SQLite instance has created a table and dropped it
C40_CreatedAndDropped ==
    /\ call.fn = "sqlite" /\ Len(ret) = 3
    /\ ret[2].op = "create" /\ ret[2].ok
    /\ ret[3].op = "drop" /\ ret[3].ok
    /\ LiveTables(3) = {}

(***************************************************************************)
(* The library functions called on their own: call is drawn from the calls *)
(* below and the actions of the function it names apply it.                *)
(***************************************************************************)
LibraryCalls ==
    LET \* the recursive walk of a tree with the depth parameter of a scan,
        \* and the listing of one directory
        Walkdir == [fn : {"walkdir"}, backend : {"local", "nfs"}, tree : Trees, depth : 0..MaxDepthArg, dir : {<<>>}]
        ListDir == [fn : {"list_dir"}, backend : {"local", "nfs"}, tree : Trees, depth : {0},
                    dir : {<<>>, <<"d">>, <<"d", "e">>}]
        \* like: patterns with a leading %, a trailing %, both, or one % inside
        Like == [fn : {"like"},
                 pattern : { <<"%", ".", "t", "x", "t">>, <<"d", "o", "c", "%", ".", "t", "x", "t">>, <<"%", "d", "o", "c", "u", "m", "e", "n", "t", "%">>, <<"m", "y", "%", "t", "x", "t">>, <<"%">>, <<"%", "%">>,
                             <<"a", "%", "a">>, <<"a", "%">>, <<"%", "a">>, <<"a", "%", "b">>, <<"t", "e", "s", "t", "%", "t">> },
                 name : { <<"m", "y", "_", "d", "o", "c", "u", "m", "e", "n", "t", ".", "t", "x", "t">>, <<"d", "o", "c", "u", "m", "e", "n", "t", ".", "t", "x", "t">>, <<"t", "e", "s", "t">>, <<"t", "e", "s", "s", "t">>, <<"a">>, <<"a", "a">>, <<"a", "b">>,
                          <<"a", "b", "a">>, <<"b">>, <<>> }]
        \* filter expressions: one condition of a field, an operator and a
        \* value; conditions of the form value in field and texts that are no
        \* condition; two conditions joined by and
        FieldTexts == { <<"n", "a", "m", "e">>, <<"s", "i", "z", "e">>, <<"t", "y", "p", "e">>, <<"m", "o", "d", "i", "f", "i", "e", "d">>, <<"e", "x", "t", "e", "n", "s", "i", "o", "n">>, <<"o", "w", "n", "e", "r">>, <<>> }
        OpTexts == { <<" ", "=", "=", " ">>, <<" ", ">", "=", " ">>, <<"<">>, <<" ", "l", "i", "k", "e", " ">>, <<" ", "c", "o", "n", "t", "a", "i", "n", "s", " ">>, <<" ", "s", "t", "a", "r", "t", "s", " ", "w", "i", "t", "h", " ">>, <<" ", "e", "n", "d", "s", " ", "w", "i", "t", "h", " ">>,
                     <<" ", "~", " ">>, <<" ">> }
        ValueTexts == { <<"\"", "a", ".", "t", "x", "t", "\"">>, <<"'", "x", "'">>, <<"9">>, <<"1", "k">> }
        OtherTexts == { <<"\"", "a", "\"", " ", "i", "n", " ", "n", "a", "m", "e">>, <<"\"", "a", "\"", " ", "i", "n", " ", "p", "a", "t", "h">>, <<"\"", "a", "\"", " ", "i", "n", " ", "o", "w", "n", "e", "r">>, <<>>, <<" ", " ", " ">>, <<"n", "a", "m", "e">>, <<"a", "n", "d">>,
                        <<"n", "a", "m", "e", " ", "=", "=", " ", "\"", "s", "a", "n", "d", "b", "o", "x", "\"">>, <<"s", "i", "z", "e", " ", "=", ">", " ", "9">>, <<"n", "a", "m", "e", " ", "=", " ", "\"", "a", "\"">>,
                        <<"n", "a", "m", "e", " ", "=", "=", " ", "\"", "s", "a", "n", "d", "b", "o", "x", "\"", " ", "a", "n", "d", " ", "s", "i", "z", "e", " ", ">", "=", " ", "9">>, <<"n", "a", "m", "e", " ", "=", "=", " ", "\"", "x", "\"", " ", "a", "n", "d", " ", "p", "a", "t", "h", " ", "c", "o", "n", "t", "a", "i", "n", "s", " ", "\"", "l", "a", "n", "d", "\"">> }
        JoinedTexts ==
            { a \o <<" ", "a", "n", "d", " ">> \o b :
                a \in { <<"n", "a", "m", "e", " ", "l", "i", "k", "e", " ", "\"", "a", ".", "t", "x", "t", "\"">>, <<"o", "w", "n", "e", "r", " ", "=", "=", " ", "\"", "x", "\"">>, <<"s", "i", "z", "e", " ", ">", "=", " ", "1", "k">>, <<"t", "y", "p", "e", " ", "=", "=", " ", "\"", "f", "i", "l", "e", "\"">> },
                b \in { <<"s", "i", "z", "e", " ", ">", "=", " ", "9">>, <<"s", "i", "z", "e", "s", " ", ">", "=", " ", "9">>, <<"s", "i", "z", "e", " ", ">", "=", " ">>, <<"n", "a", "m", "e", " ", "~", " ", "\"", "a", "\"">>, <<>> } }
        Parse == [fn : {"parse"},
                  expr : { f \o o \o v : f \in FieldTexts, o \in OpTexts, v \in ValueTexts }
                         \cup OtherTexts \cup JoinedTexts]
        \* job ids: of letters, a digit, the underscore, the five characters
        \* the sanitizer replaces, and two other printable characters
        IdChars == {"a", "Z", "7", "_", "-", ".", " ", "/", "\\", ";", "'"}
        Sanitize == [fn : {"sanitize"}, id : UNION { [1..n -> IdChars] : n \in 0..MaxIdLen }]
        \* NFS locations of each form; an nfs:// location has no path or one
        \* that starts with the / that ends the server part
        NfsServers == { <<>>, <<"h", "o", "s", "t">>, <<" ", "h", "o", "s", "t", " ">> }
        NfsPorts == { <<>>, <<"0">>, <<"2", "0", "4", "9">>, <<"6", "5", "5", "3", "5">>, <<"6", "5", "5", "3", "6">>, <<"a", "b">>, <<" ", "8", "0", " ">> }
        NfsPaths == { <<>>, <<"/">>, <<"/", "e", "x", "p", "/", "x">>, <<"p", "a", "t", "h">>, <<"/", "a", ":", "b">> }
        NfsUrlPaths == { p \in NfsPaths : p = <<>> \/ StartsWith(p, <<"/">>) }
        Nfs == [fn : {"nfs"}, form : {"url"}, server : NfsServers, port : {<<>>}, path : NfsUrlPaths]
               \cup [fn : {"nfs"}, form : {"url_port"}, server : NfsServers, port : NfsPorts, path : NfsUrlPaths]
               \cup [fn : {"nfs"}, form : {"server_port_path"}, server : NfsServers, port : NfsPorts, path : NfsPaths]
               \cup [fn : {"nfs"}, form : {"server_path"}, server : NfsServers, port : {<<>>}, path : NfsPaths]
               \cup [fn : {"nfs"}, form : {"server"}, server : NfsServers, port : {<<>>}, path : {<<>>}]
        WithConfigCalls ==
            [fn : {"with_config"},
             config : [enable_console_consumer : BOOLEAN, enable_log_consumer : BOOLEAN,
                       enable_database_consumer : BOOLEAN, enable_kafka_consumer : BOOLEAN,
                       channel_capacity : 0..MaxCapacity]]
        \* walks with one failure: any entry can fail to stat, any
        \* subdirectory can fail to be listed
        Faults(tree) ==
            { [path |-> tree[i].path, kind |-> k] : i \in 1..Len(tree), k \in {"stat", "io", "denied"} }
                \ { f \in [path : {tree[i].path : i \in 1..Len(tree)}, kind : {"io", "denied"}] :
                        \E i \in 1..Len(tree) : tree[i].path = f.path /\ tree[i].ftype # "dir" }
        Faulty == UNION { [fn : {"walkdir_faulty"}, backend : {"local", "nfs"}, tree : {t}, fault : Faults(t)] :
                          t \in Trees }
        \* listing operations on an NFS export: the walk from the root or
        \* the listing of one directory, with a mount that succeeds or
        \* fails, no failure or one failure at the root or below it, and a
        \* receiver that is kept or dropped
        NfsSessions ==
            UNION { [fn : {"nfs_session"}, entry : {"walkdir", "list_dir"}, tree : {t}, dir : {<<>>},
                     fault : Faults(t) \cup [path : {<<>>}, kind : {"none", "io", "denied"}],
                     mount_ok : BOOLEAN, rx_dropped : BOOLEAN] : t \in Trees }
        \* modes of entries: none, no bit set, 0o644, 0o755, 0o777, 0o4755,
        \* and the st_mode of a regular file 0o100644 and a directory 0o40755
        Perm == [fn : {"perm"}, mode : {None} \cup {Some(m) : m \in {0, 1, 420, 493, 511, 2541, 33188, 16877}}]
        \* now at the epoch (the clock before it) or two days after it; an
        \* mtime that is missing, a day before the epoch, at the epoch, one
        \* day before now, now, or a day after now
        Ages == [fn : {"modified_days"}, now : {0, 172800000},
                 mtime : {None} \cup {Some(t) : t \in {-86400000, 0, 86400000, 172800000, 259200000}}]
    IN  Walkdir \cup ListDir \cup Like \cup Parse \cup Sanitize \cup Nfs \cup WithConfigCalls \cup Faulty
            \cup {[fn |-> "clickhouse"], [fn |-> "sqlite"], [fn |-> "factory"]} \cup Ages \cup Perm \cup NfsSessions

LibraryInit ==
    /\ call \in LibraryCalls
    /\ ret = <<>>
    /\ cfg = IdleScenario
    /\ ScanIdle

LibraryNext ==
    \/ WalkdirEmit
    \/ ListDirEmit
    \/ LikeEvaluate
    \/ ParseEvaluate
    \/ PrepareJob
    \/ SinkJobId
    \/ SinkTableName
    \/ NfsParse
    \/ WithConfig
    \/ FaultyEmit
    \/ FaultyEnd
    \/ ClickHouseNew
    \/ CreateTemp
    \/ DropTemp
    \/ InsertTemp
    \/ FactoryInitialize
    \/ FactoryCreate
    \/ NfsSessionStep
    \/ PermFormat
    \/ PermRecord
    \/ ModifiedDays
    \/ SqliteNew
    \/ SqliteCreateTemp
    \/ SqliteDropTemp

LibrarySpec == LibraryInit /\ [][LibraryNext]_vars

(***************************************************************************)
(* Order of the messages a sink handles                                    *)
(***************************************************************************)
\* the bus position a sink handles next when it misses nothing: a sink is
\* subscribed before the first message is sent
ExpectedAt(s, i) == IF i = 1 THEN 1 ELSE handled[s][i - 1] + 1

\* the places of the sequence a sink handled where bus messages are
\* missing, Len + 1 standing for messages skipped since the last one
Gaps(s) ==
    {i \in 1..Len(handled[s]) : handled[s][i] # ExpectedAt(s, i)}
        \cup (IF cursor[s] + 1 # ExpectedAt(s, Len(handled[s]) + 1) THEN {Len(handled[s]) + 1} ELSE {})

\* C30: what a sink handles is a subsequence of what the bus accepted: the
\* positions it handled are positions of the bus, strictly increasing (the
\* order is kept and nothing is handled twice), and there are no more gaps
\* in them than Lagged errors the sink received.
C30_HandledInBusOrder ==
    \A s \in AllSinks :
        /\ \A i \in 1..Len(handled[s]) : handled[s][i] \in 1..Len(bus)
        /\ \A i \in 1..(Len(handled[s]) - 1) : handled[s][i] < handled[s][i + 1]
        /\ Cardinality(Gaps(s)) <= lagged[s]

\* a sink handled a message, was signalled lag and went on with a later
\* message of the bus
C30_Witness ==
    \E s \in AllSinks :
        /\ lagged[s] > 0
        /\ \E i \in 2..Len(handled[s]) : handled[s][i] > handled[s][i - 1] + 1

(***************************************************************************)
(* The ConsumerManager driven through its own interface (manager.rs,       *)
(* tests/test_consumer.rs): start_consumers, any number of broadcasts, and *)
(* the manager with every clone of its broadcaster dropped at any moment.  *)
(* scan_pc is the position of the owner of the manager.                    *)
(***************************************************************************)
\* most messages the owner broadcasts
MaxBroadcasts == 3

\* the owners that are explored: each optional sink next to the console
\* sink, each batch size, an initialization that succeeds or fails
ManagerInit ==
    /\ call = [fn |-> "manager"]
    /\ ret = <<>>
    /\ cfg \in { c \in Scenarios :
                   /\ c.path_kind = "local" /\ c.match = <<>> /\ c.exclude = <<>>
                   /\ c.db_init \in {"ok", "create_failed"} }
    /\ ScanIdle

\* ConsumerManager::new(..) and start_consumers(): every registered sink is
\* subscribed, then its task is spawned
ManagerStart ==
    /\ call.fn = "manager"
    /\ scan_pc = "parse"
    /\ sink_pc' = [s \in AllSinks |-> IF s \in Registered(cfg) THEN "run" ELSE "absent"]
    /\ cursor' = [s \in AllSinks |-> Len(bus)]
    /\ scan_pc' = "config"
    /\ UNCHANGED <<cfg, callVars, scan_config, walkVars, queue, bus, send_failed, lagged, handled, console, db>>

\* broadcast(message) or get_broadcaster().send(message), shutdown() being
\* the send of Complete
ManagerBroadcast ==
    /\ call.fn = "manager"
    /\ scan_pc = "config"
    /\ Len(bus) + Len(send_failed) < MaxBroadcasts
    /\ \E msg \in {ConfigMsg, ResultMsg(Children[1]), CompleteMsg} : BusSend(msg)
    /\ UNCHANGED <<cfg, callVars, scan_pc, scan_config, walkVars, queue, sinkVars>>

\* the owner returns: the manager and the clones of its broadcaster are
\* dropped, which closes the channel
ManagerDrop ==
    /\ call.fn = "manager"
    /\ scan_pc = "config"
    /\ scan_pc' = "ok"
    /\ UNCHANGED <<cfg, callVars, scan_config, walkVars, queue, bus, send_failed, sinkVars>>

ManagerNext ==
    \/ ManagerStart
    \/ ManagerBroadcast
    \/ ManagerDrop
    \/ ConsoleRecv
    \/ DatabaseRecv
    \/ KafkaRecv

ManagerSpec == ManagerInit /\ [][ManagerNext]_vars

\* the runtime polls every sink task that is ready; nothing is assumed of
\* the owner
ManagerLiveSpec ==
    /\ ManagerInit /\ [][ManagerNext]_vars
    /\ WF_vars(ConsoleRecv)
    /\ WF_vars(DatabaseRecv)
    /\ WF_vars(KafkaRecv)

\* C31: a sink whose channel is closed before it has seen Complete ends
\* its task (with Ok, the only way a sink task ends) instead of waiting
\* forever.
C31_ClosedSinkExits ==
    \A s \in AllSinks : (sink_pc[s] = "run" /\ ~SendersAlive) ~> (sink_pc[s] = "done")

\* a sink has ended on a closed channel on which Complete was never sent
C31_Witness ==
    /\ call.fn = "manager"
    /\ ~SendersAlive
    /\ \A i \in 1..Len(bus) : bus[i].type # "Complete"
    /\ sink_pc["database"] = "done"
    /\ sink_pc["console"] = "done"
    /\ handled["console"] # <<>>

(***************************************************************************)
(* The totals of the console sink                                          *)
(***************************************************************************)
\* the entries of the Results the console sink has handled, in order
ConsoleHandledEntries ==
    LET h == handled["console"]
        results == SelectSeq(h, LAMBDA i : bus[i].type = "Result")
    IN  [k \in 1..Len(results) |-> bus[results[k]].entry]

\* the sum of size over the entries that are no directory
RECURSIVE SizeOfFiles(_)
SizeOfFiles(entries) ==
    IF entries = <<>> THEN 0
    ELSE (IF Head(entries).is_dir THEN 0 ELSE Head(entries).size) + SizeOfFiles(Tail(entries))

\* C36 (as stated): after any sequence of Results the console sink holds
\* in total_size the sum of size over the handled entries that are no
\* directory, in total_files their number and in total_dirs the number of
\* handled directories.
C36_ConsoleTotals ==
    /\ console.total_size = SizeOfFiles(ConsoleHandledEntries)
    /\ console.total_files = Len(SelectSeq(ConsoleHandledEntries, IsFileEntry))
    /\ console.total_dirs = Len(SelectSeq(ConsoleHandledEntries, IsDirEntry))

\* what the sink holds: the two counts, and every size added twice, by the
\* Result arm and by update_file_stats
C36_SizeAddedTwice ==
    /\ console.total_size = 2 * SizeOfFiles(ConsoleHandledEntries)
    /\ console.total_files = Len(SelectSeq(ConsoleHandledEntries, IsFileEntry))
    /\ console.total_dirs = Len(SelectSeq(ConsoleHandledEntries, IsDirEntry))

\* the sink has handled a file and a directory
C36_FileAndDirHandled ==
    /\ console.total_files >= 1 /\ console.total_dirs >= 1
    /\ console.total_size = 16

(***************************************************************************)
(* Subscription of the sinks                                               *)
(***************************************************************************)
\* C37: every registered sink is subscribed before Config is sent: once
\* anything was sent each registered sink has its receiver, the send of
\* Config found receivers, and a sink that never got Lagged has handled
\* every position up to its cursor, Config at position 1 first.
C37_SubscribedBeforeConfig ==
    /\ \A i \in 1..Len(send_failed) : send_failed[i].type # "Config"
    /\ \A s \in Registered(cfg) :
         /\ (bus # <<>> \/ send_failed # <<>>) => sink_pc[s] # "absent"
         /\ lagged[s] = 0 =>
              /\ handled[s] = [i \in 1..cursor[s] |-> i]
              /\ handled[s] # <<>> => bus[handled[s][1]].type = "Config"

\* the database sink and the console sink have both handled Config first
\* and a Result after it
C37_Witness ==
    /\ \A s \in {"database", "console"} :
         /\ s \in Registered(cfg)
         /\ lagged[s] = 0
         /\ Len(handled[s]) >= 2
         /\ bus[handled[s][1]].type = "Config"
         /\ bus[handled[s][2]].type = "Result"

(***************************************************************************)
(* The batch buffer of the database sink when its task ends                *)
(***************************************************************************)
\* C38 (as stated): when the task of the database sink has ended, on
\* Complete or on the closed channel, every record it appended to its
\* batch buffer has been passed to a batch insert: nothing is pending.
C38_BatchFlushedAtExit ==
    sink_pc["database"] = "done" => db.batch_records = <<>>

\* what the task does: the Complete arm flushes, the Closed arm breaks out
\* of the loop with the buffer as it is
C38_FlushedOnComplete ==
    (sink_pc["database"] = "done" /\ DbHandledComplete) => db.batch_records = <<>>

\* a sink that ended on Complete has inserted the one record it had pending
C38_FlushedAtComplete ==
    /\ sink_pc["database"] = "done" /\ DbHandledComplete
    /\ cfg.batch_size = 2
    /\ Len(db.inserts) = 1 /\ Len(db.inserts[1].records) = 1

====
